---- MODULE Spec2Model ----
(***************************************************************************)
(* Brute_File_classifier: the scan-classify-index pipeline and the         *)
(* retrying classifier client.                                             *)
(*                                                                         *)
(*   Spec        the scan pipeline: the walker, the worker threads it      *)
(*               starts, the bounded work queue and the file database, in  *)
(*               the repository's implementations                          *)
(*                 "ps"   parallel_scanner.parallel_scan_files, llm_worker *)
(*                 "sua"  simple_unified_app.parallel_scan_files,          *)
(*                        process_file_worker                              *)
(*                 "seq"  file_classifier.scan_files (no workers)          *)
(*   SpecParallel  parallel_scanner.parallel_scan_files over lists of      *)
(*               roots that may name a folder twice                        *)
(*   SpecClient  one call of classify_file_with_llm in its three versions  *)
(*   SpecCheckpoint  the checkpoints of a long parallel scan               *)
(*   SpecProcessFile one call of parallel_scanner.process_file             *)
(*   SpecSearch  one call of file_classifier.search_files                  *)
(*   SpecEmbed   a sequence of calls of file_classifier.get_embedding      *)
(*   SpecQt      the Qt application's Scan and Stop buttons and its        *)
(*               ScannerThread, under fair scheduling                      *)
(*   SpecResume  the resume record: loaded at start-up, written and        *)
(*               cleared by the sequential scan of the patched Qt program  *)
(***************************************************************************)
EXTENDS Integers, Sequences, FiniteSets, Bags, TLC

(***************************************************************************)
(* Bounds of the model.                                                    *)
(***************************************************************************)
\* number of candidate files the walk enumerates
NumFiles == 2
\* worker threads started per scan in the runs that do a single scan
\* (num_workers = min(os.cpu_count() or 4, 8) is any of 1..8)
NumWorkers == 2
\* capacity of the work queue; queue.Queue(maxsize=100) in the source
QueueMaxSize == 1
\* scans run one after the other in the same process, in the runs that
\* start one worker per scan
MaxScans == 2
\* the wall clock runs over 0..MaxClock
MaxClock == 1
\* how many files the environment modifies on disk
MaxTouches == 2
\* config["max_retries"] is any of 0..MaxRetries (the default is 2)
MaxRetries == 2
\* files one worker merges in the long scan of SpecCheckpoint
MaxMerges == 20
\* file names have 1..MaxNameLen characters
MaxNameLen == 3
\* files the sequential scan of SpecResume walks
MaxResumeFiles == 201
\* records in the database that is searched
MaxItems == 2
\* semantic_search keeps the top_k best candidates; top_k=20 in the source
TopK == 1
\* calls of get_embedding in a run of SpecEmbed
MaxEmbedCalls == 4

(***************************************************************************)
(* Program constants.                                                      *)
(***************************************************************************)
\* DEFAULT_CONFIG["max_file_size_mb"]
max_file_size_mb == 5
\* llm_worker saves the database when files_processed % 20 == 0
WorkerSaveEvery == 20
\* scan_files and simple_unified_app.parallel_scan_files save the database
\* when processed_files % 100 == 0
WalkerSaveEvery == 100
\* load_resume_state offers a record younger than 86400 seconds
ResumeMaxAge == 86400
\* the patched sequential scan writes the resume record when
\* processed_files % 200 == 0
ResumeSaveEvery == 200
\* scores are counted in tenths: search_files admits a semantic result
\* when its similarity is > 0.5
SemanticThreshold == 5
\* get_embedding returned None for the text
EmbedFails == -1
\* the text is not a key of embeddings_cache
NotCached == 0

Files == 1..NumFiles
Impls == {"ps", "sua", "seq"}

\* unified_scan's scan modes that are to classify without the LLM
OfflineModes == {"offline", "turbo"}

\* the scan_mode of a run: sequential scans are "standard" or "offline",
\* parallel scans are "parallel" or "turbo"
ScanMode(i, offline) ==
    IF i = "seq" THEN (IF offline THEN "offline" ELSE "standard")
    ELSE (IF offline THEN "turbo" ELSE "parallel")

\* the explored runs: several workers and one scan; one worker and several
\* scans; one worker and one scan during which the user presses Stop; one
\* worker and one scan started in an offline mode of unified_scan
Configs ==
    {[workers |-> NumWorkers, scans |-> 1, stop |-> FALSE, offline |-> FALSE],
     [workers |-> 1, scans |-> MaxScans, stop |-> FALSE, offline |-> FALSE],
     [workers |-> 1, scans |-> 1, stop |-> TRUE, offline |-> FALSE],
     [workers |-> 1, scans |-> 1, stop |-> FALSE, offline |-> TRUE]}

\* the queue's sentinel, None in the source
Sentinel == 0
\* the value of file_database.get(path) for a path that has no record
NoRecord == [path |-> 0, classification |-> "none", scan_timestamp |-> -1,
             offline_indexed |-> "absent"]
\* RESUME_FILE does not exist
NoResumeFile == [kind |-> "absent", has_timestamp |-> FALSE, timestamp |-> 0,
                 processed_files_count |-> 0]
\* RESUME_FILE exists and is not a JSON document
CorruptResumeFile == [NoResumeFile EXCEPT !.kind = "corrupt"]
\* the value of process_file_result while process_file has not returned
NoResult == [classification |-> <<>>, keywords |-> <<>>,
             offline_indexed |-> "absent"]
\* the value of at_stop while Stop has not been pressed in the current scan
NoStop == [db |-> [f \in 1..NumFiles |-> NoRecord], widx |-> 0]
\* os.path.getsize / os.path.getmtime raise for a file with this size
StatFails == -1
\* sizes in MB: exactly the limit, just over it, or not obtainable
FileSizes == {max_file_size_mb, max_file_size_mb + 1, StatFails}

VARIABLES
    drive_paths,     \* the scan function's list of root paths
    impl,            \* which implementation runs
    num_workers,     \* the scan function's num_workers
    max_scans,       \* how many scans the user starts
    user_stops,      \* the user presses Stop during the work pass
    scan_mode,       \* unified_scan's scan_mode
    scanning_active, \* the cancellation flag (True while a scan is wanted)
    offline_mode,    \* config["offline_mode"] in the configuration file
    at_stop,         \* file_database and widx as they were when Stop was pressed
    now,             \* the latest value time.time() has returned
    size_mb,         \* file -> size on disk in MB, StatFails if stat raises
    unreadable,      \* files that cannot be opened: get_file_preview returns
                     \* an "[Error ...]" marker for them
    mtime,           \* file -> os.path.getmtime
    changed,         \* files modified on disk since the program started
    file_database,   \* file -> record, NoRecord if the path is not a key
    unsaved,         \* files whose record is newer than the database on disk
    unsaved_merges,  \* records stored since the last save of the database
    file_queue,      \* the module-level queue.Queue: Seq of file or Sentinel
    unfinished_tasks,\* queue.Queue.unfinished_tasks
    scan_complete,   \* module-level flag
    worker_count,    \* module-level counter
    wpc,             \* the walker's position in the scan function
    widx,            \* index into WalkOrder of the file handled next
    wk,              \* loop counter of the sentinel loop and the join loop
    processed_files, \* the walker's progress counter
    scan_no,         \* scans started so far
    workers,         \* bag of the live worker threads' local states
    classify_calls,  \* file -> invocations of the classifier function
    preview_calls,   \* file -> invocations of get_file_preview
    enqueued,        \* file -> times put on the queue
    sentinels_put,   \* sentinels enqueued so far
    sentinels_got,   \* sentinels dequeued so far
    flag_exits,      \* workers that ended on empty queue + scan_complete
    crashed,         \* workers that ended with an uncaught exception
    client,          \* which classify_file_with_llm is called
    max_retries,     \* config["max_retries"]
    script,          \* what the LLM endpoint does at each request
    cpc,             \* "idle", "loop" (in the retry loop) or "done"
    retry,           \* the loop variable
    requests,        \* requests.post calls made
    sleeps,          \* the time.sleep arguments, in order
    result,          \* classification of the returned record
    keywords,        \* keywords of the returned record
    raised,          \* the call raised to its caller
    file_name,       \* process_file's file_name argument
    config,          \* process_file's config argument: its "offline_mode"
    classify_func,   \* what process_file's classify_func does when called
    process_file_result, \* the record process_file returned
    classify_func_calls, \* process_file's calls of classify_func
    resume_file,     \* what RESUME_FILE holds on disk
    resume_data,     \* what load_resume_state returned at start-up
    query,           \* search_files' argument
    items,           \* list(file_database.values()) as search_files sees it
    query_embeds,    \* get_embedding(query) returns a vector, not None
    similarity,      \* summary -> cosine similarity to the query, in tenths,
                     \* or EmbedFails when get_embedding(summary) is None
    keyword_results, \* what keyword_search returned: <<path, score>>
    semantic_results,\* what semantic_search returned: <<path, similarity>>
    search_results,  \* the global search_results: <<path, score, tag>>
    searched,        \* search_files has returned
    embeddings_cache,\* the module-level cache: text -> vector or NotCached
    embedding_model, \* the module-level model: "None" or "loaded"
    embed_text,      \* the argument of the latest get_embedding call
    embed_result,    \* what that call returned: a vector or EmbedFails
    get_calls,       \* text -> calls of get_embedding
    encode_calls,    \* text -> calls of embedding_model.encode
    model_inits,     \* calls of init_embedding_model made by get_embedding
    qt_scanning_active, \* FileClassifierApp.scanning_active
    qt_scan_mode,    \* ScannerThread.scan_mode
    is_cancelled,    \* ScannerThread.is_cancelled
    qpc,             \* the scanner thread's position in run()
    qidx,            \* the directory or file the thread's loop is at
    scan_complete_signal, \* scan_complete emitted, slot not yet run
    qt_scans,        \* scanner threads started so far
    app,             \* the application whose unified_scan is modelled
    persisted_offline_mode, \* "offline_mode" in the configuration file
    app_scanning_active,    \* the application module's scanning_active
    unified_scans,   \* calls of unified_scan made so far
    unified_mode,    \* call -> its scan_mode
    original_offline_mode,  \* call -> the value read at lines 262 / 39
    scan_thread,     \* call -> "none", "started", "running", "finished"
    restore_thread,  \* call -> "none", "waiting", "done"
    files_left,      \* call -> files its scan thread has still to handle
    offline_seen     \* call -> values of offline_mode its files were
                     \* handled under

cfgvars  == <<impl, num_workers, max_scans, user_stops, scan_mode,
              drive_paths>>
envvars  == <<cfgvars, now, size_mb, unreadable, mtime, changed>>
uivars   == <<scanning_active, offline_mode, at_stop>>
dbvars   == <<file_database, unsaved, unsaved_merges>>
qvars    == <<file_queue, unfinished_tasks>>
flagvars == <<scan_complete, worker_count>>
walkvars == <<wpc, widx, wk, processed_files, scan_no>>
histvars == <<classify_calls, preview_calls, enqueued, sentinels_put,
              sentinels_got, flag_exits, crashed>>

pipevars == <<envvars, uivars, dbvars, qvars, flagvars, walkvars, workers,
              histvars>>

clientvars == <<client, max_retries, script, cpc, retry, requests, sleeps,
                result, keywords, raised>>

pfvars == <<file_name, config, classify_func, process_file_result,
            classify_func_calls>>

\* the state of the functions that are called outside a scan
resumevars == <<resume_file, resume_data>>

searchvars == <<query, items, query_embeds, similarity, keyword_results,
                semantic_results, search_results, searched>>

embedvars == <<embeddings_cache, embedding_model, embed_text, embed_result,
               get_calls, encode_calls, model_inits>>

qtvars == <<qt_scanning_active, qt_scan_mode, is_cancelled, qpc, qidx,
            scan_complete_signal, qt_scans>>

unifiedvars == <<app, persisted_offline_mode, app_scanning_active,
                 unified_scans, unified_mode, original_offline_mode,
                 scan_thread, restore_thread, files_left, offline_seen>>

libvars == <<pfvars, resumevars, searchvars, embedvars, qtvars, unifiedvars>>

\* what the Qt application's buttons and scanner thread leave alone
qtrest == <<pipevars, clientvars, pfvars, resumevars, searchvars, embedvars,
            unifiedvars>>

vars == <<pipevars, clientvars, libvars>>

(***************************************************************************)
(* The file tree: the folder "top" holds every file, the last of them in   *)
(* its subfolder "sub".                                                    *)
(***************************************************************************)
\* the candidate files os.walk(root) yields, in order (extension and
\* directory filters already applied)
RootFiles(root) ==
    IF root = "sub" THEN <<NumFiles>> ELSE [i \in 1..NumFiles |-> i]

\* the candidate files in the order the walker's loops meet them:
\* for drive in drive_paths: for root, dirs, files in os.walk(drive)
RECURSIVE WalkAll(_)
WalkAll(drives) ==
    IF drives = <<>> THEN <<>>
    ELSE RootFiles(Head(drives)) \o WalkAll(Tail(drives))

WalkOrder == WalkAll(drive_paths)

\* the count pass: on a filesystem that does not change during the scan
\* total_files is the number of candidate files the work pass will meet
total_files == Len(WalkOrder)

\* lists of roots: one root, the same root twice, a root and a folder
\* inside it in either order
DrivePathLists ==
    {<<"top">>, <<"top", "top">>, <<"top", "sub">>, <<"sub", "top">>}

(***************************************************************************)
(* time.time(): a read returns the last value read or a later one          *)
(***************************************************************************)
ClockReads(t) == {t} \cup ({t + 1} \cap (0..MaxClock))

(***************************************************************************)
(* queue.Queue                                                             *)
(***************************************************************************)
\* a put that still finds room in a queue holding maxsize entries
QueueFullOffByOne(q) == Len(q) > QueueMaxSize

\* Queue.put blocks while the queue is full (qsize >= maxsize)
QueueFull(q) == Len(q) >= QueueMaxSize

\* Queue.get blocks (until its timeout) while the queue is empty
QueueEmpty(q) == Len(q) = 0

\* Queue.task_done raises ValueError('task_done() called too many times')
\* when unfinished_tasks - 1 < 0
TaskDoneRaises(u) == u - 1 < 0

\* Queue.task_done: unfinished_tasks - 1, left alone when it raises
TaskDone(u) == IF TaskDoneRaises(u) THEN u ELSE u - 1

(***************************************************************************)
(* Records                                                                 *)
(***************************************************************************)
\* the "Large File" record the walker writes
LargeFileRecord(f, t) ==
    [path |-> f, classification |-> "Large File", scan_timestamp |-> t,
     offline_indexed |-> "absent"]

\* the value stored under "offline_indexed"
OfflineIndexed(off) == IF off THEN "true" ELSE "false"

\* a record that carries the path of another file
ProcessFileRecordOtherPath(f, outcome, t, off) ==
    [path |-> f + 1, classification |-> outcome, scan_timestamp |-> t,
     offline_indexed |-> OfflineIndexed(off)]

\* process_file without its exception handler
ProcessFileRecordNoHandler(f, outcome, t, off) ==
    [path |-> f, classification |-> outcome, scan_timestamp |-> t,
     offline_indexed |-> OfflineIndexed(off)]

\* process_file: the record built from the classifier's result, or the
\* "Error" record when the classifier function raised
ProcessFileRecord(f, outcome, t, off) ==
    IF outcome = "raise"
    THEN [path |-> f, classification |-> "Error", scan_timestamp |-> t,
          offline_indexed |-> "absent"]
    ELSE [path |-> f, classification |-> outcome, scan_timestamp |-> t,
          offline_indexed |-> OfflineIndexed(off)]

\* the record simple_unified_app.process_file_worker stores
SuaRecord(f, label, t, off) ==
    [path |-> f, classification |-> label, scan_timestamp |-> t,
     offline_indexed |-> OfflineIndexed(off)]

\* the record file_classifier.scan_files stores
SeqRecord(f, label, t) ==
    [path |-> f, classification |-> label, scan_timestamp |-> t,
     offline_indexed |-> "absent"]

\* what the classifier function does in the pipeline: it returns a record
\* with a label, or raises
ClassifyOutcomes == {"Label", "raise"}

\* the freshness test: the file is skipped when it has a record and
\* last_modified_time <= last_scan_time
IsFresh(db, f, mt) == db[f] # NoRecord /\ mt <= db[f].scan_timestamp

\* an oversize test that also takes a file of exactly the limit
IsOversizeInclusive(sz) == sz >= max_file_size_mb

\* the oversize test: file_size_mb > max_file_size_mb
IsOversize(sz) == sz > max_file_size_mb

\* the walkers' periodic save: processed_files % 100 == 0
WalkerSaves(p) == p % WalkerSaveEvery = 0

\* llm_worker saves the database when its own files_processed % 20 == 0
WorkerSaves(n) == n % WorkerSaveEvery = 0

\* save_database: the whole in-memory database is written to disk, after
\* which no record is newer than the file
SaveDatabase(u) == {}

\* the keys of the in-memory database
Stored(db) == {f \in Files : db[f] # NoRecord}

\* a worker thread that has just been started
NewWorker == [pc |-> "get", item |-> Sentinel, result |-> "none", ts |-> 0,
              files_processed |-> 0]

\* n copies of a worker state
Copies(w, n) == [x \in {w} |-> n]

\* the bag of workers after one worker in state w has moved to state w2
Moved(w, w2) == (workers (-) SetToBag({w})) (+) SetToBag({w2})

\* the bag of workers after one worker in state w has ended
Ended(w) == workers (-) SetToBag({w})

LiveWorkers == BagToSet(workers)

LockFreeAlways == TRUE

\* results_lock is free: neither the walker nor a worker is inside a
\* "with results_lock" block of parallel_scanner
LockFree == wpc # "large" /\ \A w \in LiveWorkers : w.pc # "locked"

(***************************************************************************)
(* Initial state: a fresh process with an empty database.                  *)
(***************************************************************************)
FreshProcess ==
    /\ scanning_active = FALSE
    /\ offline_mode = FALSE
    /\ at_stop = NoStop
    /\ now = 0
    /\ mtime = [f \in Files |-> 0]
    /\ changed = {}
    /\ file_database = [f \in Files |-> NoRecord]
    /\ unsaved = {}
    /\ unsaved_merges = 0
    /\ file_queue = <<>>
    /\ unfinished_tasks = 0
    /\ scan_complete = FALSE
    /\ worker_count = 0
    /\ wpc = "idle"
    /\ widx = 1
    /\ wk = 0
    /\ processed_files = 0
    /\ scan_no = 0
    /\ workers = EmptyBag
    /\ classify_calls = [f \in Files |-> 0]
    /\ preview_calls = [f \in Files |-> 0]
    /\ enqueued = [f \in Files |-> 0]
    /\ sentinels_put = 0
    /\ sentinels_got = 0
    /\ flag_exits = 0
    /\ crashed = 0

ClientIdle ==
    /\ client = "fixed"
    /\ max_retries = 0
    /\ script = <<>>
    /\ cpc = "idle"
    /\ retry = 0
    /\ requests = 0
    /\ sleeps = <<>>
    /\ result = "none"
    /\ keywords = {}
    /\ raised = FALSE

\* process_file has not been called
ProcessFileIdle ==
    /\ file_name = <<>>
    /\ config = "absent"
    /\ classify_func = "Label"
    /\ process_file_result = NoResult
    /\ classify_func_calls = 0

\* there is no resume file and load_resume_state has not been called
ResumeIdle ==
    /\ resume_file = NoResumeFile
    /\ resume_data = "not loaded"

\* search_files has not been called
SearchIdle ==
    /\ query = <<>>
    /\ items = <<>>
    /\ query_embeds = TRUE
    /\ similarity = <<>>
    /\ keyword_results = <<>>
    /\ semantic_results = <<>>
    /\ search_results = <<>>
    /\ searched = FALSE

\* the texts get_embedding is called with
Texts == {"query", "summary"}

\* the vectors embedding_model.encode may return
Vectors == {1, 2}

\* get_embedding has not been called and the cache is empty
EmbedCacheEmpty ==
    /\ embeddings_cache = [t \in Texts |-> NotCached]
    /\ embed_text = "none"
    /\ embed_result = EmbedFails
    /\ get_calls = [t \in Texts |-> 0]
    /\ encode_calls = [t \in Texts |-> 0]
    /\ model_inits = 0

EmbedIdle == EmbedCacheEmpty /\ embedding_model = "None"

\* no function outside the scans has been called
\* the Qt application has started and no scan was requested yet
QtIdle ==
    /\ qt_scanning_active = FALSE
    /\ qt_scan_mode = "standard"
    /\ is_cancelled = FALSE
    /\ qpc = "none"
    /\ qidx = 0
    /\ scan_complete_signal = FALSE
    /\ qt_scans = 0

\* calls of unified_scan, numbered in the order they are made
UnifiedCalls == 1..MaxScans

\* unified_scan has not been called
UnifiedQuiet ==
    /\ app_scanning_active = FALSE
    /\ unified_scans = 0
    /\ unified_mode = [n \in UnifiedCalls |-> "none"]
    /\ original_offline_mode = [n \in UnifiedCalls |-> FALSE]
    /\ scan_thread = [n \in UnifiedCalls |-> "none"]
    /\ restore_thread = [n \in UnifiedCalls |-> "none"]
    /\ files_left = [n \in UnifiedCalls |-> 0]
    /\ offline_seen = [n \in UnifiedCalls |-> {}]

UnifiedIdle ==
    /\ UnifiedQuiet
    /\ app = "simple_unified_app"
    /\ persisted_offline_mode = FALSE

LibIdle ==
    /\ ProcessFileIdle /\ ResumeIdle /\ SearchIdle /\ EmbedIdle /\ QtIdle
    /\ UnifiedIdle

\* unread: the files that may be unreadable; only a file that is previewed
\* (its size is obtained and is not over the limit) is ever opened
PipeInit(impls, configs, sizes, unread, drives) ==
    /\ impl \in impls
    /\ \E c \in configs :
         /\ num_workers = (IF impl = "seq" THEN 0 ELSE c.workers)
         /\ max_scans = c.scans
         /\ user_stops = c.stop
         /\ scan_mode = ScanMode(impl, c.offline)
    /\ drive_paths \in drives
    /\ size_mb \in sizes
    /\ unreadable \in SUBSET {f \in unread : size_mb[f] # StatFails
                                            /\ ~IsOversize(size_mb[f])}
    /\ FreshProcess

Init ==
    /\ PipeInit(Impls, Configs, [Files -> FileSizes], {1}, {<<"top">>})
    /\ ClientIdle
    /\ LibIdle

(***************************************************************************)
(* Environment                                                             *)
(***************************************************************************)
\* a file is modified on disk between two scans: its modification time
\* becomes the current time
Touch(f) ==
    /\ wpc = "returned"
    /\ Cardinality(changed) < MaxTouches
    /\ f \notin changed
    /\ \E t \in ClockReads(now) :
         /\ now' = t
         /\ mtime' = [mtime EXCEPT ![f] = t]
    /\ changed' = changed \cup {f}
    /\ UNCHANGED <<libvars, clientvars, uivars, cfgvars, size_mb, unreadable, dbvars, qvars,
                   flagvars, walkvars, workers, histvars>>

\* the user presses Stop while the walker is in its work pass: the
\* cancellation flag is cleared
Stop ==
    /\ user_stops
    /\ scanning_active
    /\ wpc = "walk"
    /\ scanning_active' = FALSE
    /\ at_stop' = [db |-> file_database, widx |-> widx]
    /\ UNCHANGED <<libvars, clientvars, envvars, offline_mode, dbvars, qvars, flagvars,
                   walkvars, workers, histvars>>

\* unified_scan's restore_config thread: once it sees no scan active it
\* writes the original offline_mode back to the configuration file
RestoreConfig ==
    /\ impl \in {"sua", "seq"}
    /\ scan_mode \in OfflineModes
    /\ scan_no >= 1
    /\ ~scanning_active
    /\ offline_mode
    /\ offline_mode' = FALSE
    /\ UNCHANGED <<libvars, clientvars, envvars, scanning_active, at_stop, dbvars,
                   qvars, flagvars, walkvars, workers, histvars>>

(***************************************************************************)
(* parallel_scanner.parallel_scan_files (the walker)                       *)
(***************************************************************************)
\* lines 123-168: reset the flags, count, start the worker threads; each
\* worker starts with worker_count += 1 (line 70)
PsStartScan ==
    /\ impl = "ps"
    /\ wpc \in {"idle", "returned"}
    /\ scan_no < max_scans
    /\ scan_no' = scan_no + 1
    /\ scan_complete' = FALSE
    /\ worker_count' = num_workers
    /\ workers' = workers (+) Copies(NewWorker, num_workers)
    /\ processed_files' = 0
    /\ widx' = 1
    /\ wk' = 0
    /\ wpc' = "walk"
    /\ scanning_active' = TRUE
    /\ at_stop' = NoStop
    /\ UNCHANGED offline_mode
    /\ UNCHANGED <<libvars, clientvars, envvars, dbvars, qvars, histvars>>

\* lines 182-192: the file has a record and is not newer than it; skipped.
\* processed_files is incremented at line 189 and again in the finally.
PsWalkFresh ==
    /\ impl = "ps" /\ wpc = "walk" /\ widx <= Len(WalkOrder)
    /\ LET f == WalkOrder[widx] IN
         /\ size_mb[f] # StatFails
         /\ IsFresh(file_database, f, mtime[f])
    /\ processed_files' = processed_files + 2
    /\ widx' = widx + 1
    /\ UNCHANGED <<libvars, clientvars, uivars, envvars, dbvars, qvars, flagvars, wpc, wk, scan_no, workers,
                   histvars>>

\* os.path.getmtime raises at line 184 (caught at 224, counted once), or
\* os.path.getsize raises at line 196 (counted at 199 and in the finally)
PsWalkStatFails ==
    /\ impl = "ps" /\ wpc = "walk" /\ widx <= Len(WalkOrder)
    /\ LET f == WalkOrder[widx] IN
         /\ size_mb[f] = StatFails
         /\ processed_files' = processed_files +
                                 (IF file_database[f] # NoRecord THEN 1 ELSE 2)
    /\ widx' = widx + 1
    /\ UNCHANGED <<libvars, clientvars, uivars, envvars, dbvars, qvars, flagvars, wpc, wk, scan_no, workers,
                   histvars>>

\* lines 204-206: an oversize file gets its record from the walker, which
\* first takes results_lock; the with statement blocks while another thread
\* holds it
PsWalkLargeLock ==
    /\ impl = "ps" /\ wpc = "walk" /\ widx <= Len(WalkOrder)
    /\ LET f == WalkOrder[widx] IN
         /\ size_mb[f] # StatFails
         /\ ~IsFresh(file_database, f, mtime[f])
         /\ IsOversize(size_mb[f])
    /\ LockFree
    /\ wpc' = "large"
    /\ UNCHANGED <<libvars, clientvars, uivars, envvars, dbvars, qvars, flagvars, widx, wk,
                   processed_files, scan_no, workers, histvars>>

\* lines 207-215: holding results_lock, the walker stores the "Large File"
\* record, counts the file and releases the lock
PsWalkLarge ==
    /\ impl = "ps" /\ wpc = "large"
    /\ LET f == WalkOrder[widx] IN
         /\ \E t \in ClockReads(now) :
              /\ now' = t
              /\ file_database' = [file_database EXCEPT ![f] = LargeFileRecord(f, t)]
         /\ unsaved' = unsaved \cup {f}
         /\ unsaved_merges' = unsaved_merges + 1
    /\ processed_files' = processed_files + 1
    /\ widx' = widx + 1
    /\ wpc' = "walk"
    /\ UNCHANGED <<libvars, clientvars, uivars, cfgvars, size_mb, unreadable, mtime, changed,
                   qvars, flagvars, wk, scan_no, workers, histvars>>

\* lines 216-222: preview the file and put it on the queue; put blocks
\* while the queue is full
PsWalkEnqueue ==
    /\ impl = "ps" /\ wpc = "walk" /\ widx <= Len(WalkOrder)
    /\ LET f == WalkOrder[widx] IN
         /\ size_mb[f] # StatFails
         /\ ~IsFresh(file_database, f, mtime[f])
         /\ ~IsOversize(size_mb[f])
         /\ ~QueueFull(file_queue)
         /\ preview_calls' = [preview_calls EXCEPT ![f] = @ + 1]
         /\ file_queue' = Append(file_queue, f)
         /\ enqueued' = [enqueued EXCEPT ![f] = @ + 1]
    /\ unfinished_tasks' = unfinished_tasks + 1
    /\ processed_files' = processed_files + 1
    /\ widx' = widx + 1
    /\ UNCHANGED <<libvars, clientvars, uivars, envvars, dbvars, flagvars, wpc, wk,
                   scan_no, workers, classify_calls, sentinels_put,
                   sentinels_got, flag_exits, crashed>>

\* lines 231-233: the work pass is over, scan_complete = True
PsWalkDone ==
    /\ impl = "ps" /\ wpc = "walk" /\ widx > Len(WalkOrder)
    /\ scan_complete' = TRUE
    /\ wpc' = "sentinels"
    /\ wk' = 0
    /\ UNCHANGED <<libvars, clientvars, uivars, envvars, dbvars, qvars, worker_count, widx,
                   processed_files, scan_no, workers, histvars>>

\* lines 236-238: file_queue.put(None, timeout=1) finds room
PsPutSentinel ==
    /\ impl = "ps" /\ wpc = "sentinels" /\ wk < num_workers
    /\ ~QueueFull(file_queue)
    /\ file_queue' = Append(file_queue, Sentinel)
    /\ unfinished_tasks' = unfinished_tasks + 1
    /\ sentinels_put' = sentinels_put + 1
    /\ wk' = wk + 1
    /\ UNCHANGED <<libvars, clientvars, uivars, envvars, dbvars, flagvars, wpc, widx,
                   processed_files, scan_no, workers, classify_calls,
                   preview_calls, enqueued, sentinels_got, flag_exits, crashed>>

\* lines 238-240: the queue stays full for the whole second; queue.Full is
\* swallowed and the sentinel is not enqueued
PsPutSentinelFull ==
    /\ impl = "ps" /\ wpc = "sentinels" /\ wk < num_workers
    /\ QueueFull(file_queue)
    /\ wk' = wk + 1
    /\ UNCHANGED <<libvars, clientvars, uivars, envvars, dbvars, qvars, flagvars, wpc, widx,
                   processed_files, scan_no, workers, histvars>>

\* the sentinel loop is over; go on to the joins
PsSentinelsDone ==
    /\ impl = "ps" /\ wpc = "sentinels" /\ wk = num_workers
    /\ wpc' = "join"
    /\ wk' = 0
    /\ UNCHANGED <<libvars, clientvars, uivars, envvars, dbvars, qvars, flagvars, widx, processed_files,
                   scan_no, workers, histvars>>

\* lines 243-244: thread.join(timeout=2) returns when the thread has ended
\* or when the two seconds are over
PsJoin ==
    /\ impl = "ps" /\ wpc = "join" /\ wk < num_workers
    /\ wk' = wk + 1
    /\ UNCHANGED <<libvars, clientvars, uivars, envvars, dbvars, qvars, flagvars, wpc, widx,
                   processed_files, scan_no, workers, histvars>>

\* line 247 and file_classifier.save_database lines 104-108: the final save
\* opens the database file and json.dump starts to iterate file_database
\* itself; results_lock is not taken and no copy is made
PsFinalSaveBegin ==
    /\ impl = "ps" /\ wpc = "join" /\ wk = num_workers
    /\ wpc' = "saving"
    /\ UNCHANGED <<libvars, clientvars, uivars, envvars, dbvars, qvars, flagvars, widx, wk,
                   processed_files, scan_no, workers, histvars>>

\* lines 246-248: json.dump has written every record; the walker returns
\* and fixed_scan_files clears scanning_active
PsFinalSave ==
    /\ impl = "ps" /\ wpc = "saving"
    /\ unsaved' = SaveDatabase(unsaved)
    /\ unsaved_merges' = 0
    /\ wpc' = "returned"
    /\ scanning_active' = FALSE
    /\ UNCHANGED <<libvars, clientvars, offline_mode, at_stop, envvars, file_database, qvars, flagvars, widx, wk,
                   processed_files, scan_no, workers, histvars>>

\* a worker inserted a key while json.dump was iterating the dictionary:
\* either the iteration had passed that point and the file is complete, or
\* the iteration raises RuntimeError (dictionary changed size during
\* iteration) and leaves a truncated file, so that no record in memory is
\* in a database on disk; fixed_scan_files catches the exception
PsFinalSaveTorn ==
    /\ impl = "ps" /\ wpc = "saving_torn"
    /\ \/ unsaved' = SaveDatabase(unsaved) /\ unsaved_merges' = 0
       \/ unsaved' = Stored(file_database) /\ UNCHANGED unsaved_merges
    /\ wpc' = "returned"
    /\ scanning_active' = FALSE
    /\ UNCHANGED <<libvars, clientvars, offline_mode, at_stop, envvars, file_database, qvars, flagvars, widx, wk,
                   processed_files, scan_no, workers, histvars>>

(***************************************************************************)
(* parallel_scanner.llm_worker                                             *)
(***************************************************************************)
\* lines 102-106, the finally of llm_worker: worker_count -= 1; the last
\* worker saves the database if the scan is complete
PsWorkerFinally ==
    /\ worker_count' = worker_count - 1
    /\ unsaved' = IF worker_count - 1 = 0 /\ scan_complete
                  THEN SaveDatabase(unsaved) ELSE unsaved
    /\ unsaved_merges' = IF worker_count - 1 = 0 /\ scan_complete THEN 0 ELSE unsaved_merges

\* lines 78-82: file_queue.get(timeout=2) returns a file
PsWorkerGet(w) ==
    /\ impl = "ps" /\ w.pc = "get"
    /\ ~QueueEmpty(file_queue)
    /\ Head(file_queue) # Sentinel
    /\ file_queue' = Tail(file_queue)
    /\ workers' = Moved(w, [w EXCEPT !.pc = "process", !.item = Head(file_queue)])
    /\ UNCHANGED <<libvars, clientvars, uivars, envvars, dbvars, unfinished_tasks, flagvars, walkvars,
                   histvars>>

\* lines 78-80: file_queue.get(timeout=2) returns None; the worker ends
PsWorkerGetSentinel(w) ==
    /\ impl = "ps" /\ w.pc = "get"
    /\ ~QueueEmpty(file_queue)
    /\ Head(file_queue) = Sentinel
    /\ file_queue' = Tail(file_queue)
    /\ sentinels_got' = sentinels_got + 1
    /\ PsWorkerFinally
    /\ workers' = Ended(w)
    /\ UNCHANGED <<libvars, clientvars, uivars, envvars, file_database, unfinished_tasks, scan_complete,
                   walkvars, classify_calls, preview_calls, enqueued,
                   sentinels_put, flag_exits, crashed>>

\* lines 97-101: the get timed out on an empty queue and scan_complete is
\* not set; the worker waits again
PsWorkerEmptyWait(w) ==
    /\ impl = "ps" /\ w.pc = "get"
    /\ QueueEmpty(file_queue)
    /\ ~scan_complete
    /\ workers' = Moved(w, w)
    /\ UNCHANGED <<libvars, clientvars, uivars, envvars, dbvars, qvars, flagvars, walkvars, histvars>>

\* lines 97-99: the get timed out on an empty queue and scan_complete is
\* set; the worker ends
PsWorkerEmptyDone(w) ==
    /\ impl = "ps" /\ w.pc = "get"
    /\ QueueEmpty(file_queue)
    /\ scan_complete
    /\ flag_exits' = flag_exits + 1
    /\ PsWorkerFinally
    /\ workers' = Ended(w)
    /\ UNCHANGED <<libvars, clientvars, uivars, envvars, file_database, qvars, scan_complete, walkvars,
                   classify_calls, preview_calls, enqueued, sentinels_put,
                   sentinels_got, crashed>>

\* lines 85-86 and process_file: the classifier function is called, unless
\* the configuration read when the scan started has offline_mode set; the
\* record takes its timestamp before the lock is taken
PsWorkerProcess(w, outcome) ==
    /\ impl = "ps" /\ w.pc = "process"
    /\ offline_mode => outcome = "Label"
    /\ classify_calls' = IF offline_mode THEN classify_calls
                         ELSE [classify_calls EXCEPT ![w.item] = @ + 1]
    /\ \E t \in ClockReads(now) :
         /\ now' = t
         /\ workers' = Moved(w, [w EXCEPT
                !.pc = "merge",
                !.result = IF offline_mode THEN "Heuristic" ELSE outcome,
                !.ts = t])
    /\ UNCHANGED <<libvars, clientvars, uivars, cfgvars, size_mb, unreadable, mtime, changed,
                   dbvars, qvars, flagvars, walkvars, preview_calls, enqueued,
                   sentinels_put, sentinels_got, flag_exits, crashed>>

\* line 89: the worker takes results_lock; the with statement blocks while
\* another thread holds it
PsWorkerLock(w) ==
    /\ impl = "ps" /\ w.pc = "merge"
    /\ LockFree
    /\ workers' = Moved(w, [w EXCEPT !.pc = "locked"])
    /\ UNCHANGED <<libvars, clientvars, uivars, envvars, dbvars, qvars, flagvars, walkvars, histvars>>

\* lines 90-95: holding results_lock, store the record and save the database
\* every WorkerSaveEvery files of this worker, then release the lock; a new
\* key stored while the walker's final save iterates the dictionary changes
\* the size of the dictionary under the iteration
PsWorkerMerge(w) ==
    /\ impl = "ps" /\ w.pc = "locked"
    /\ file_database' = [file_database EXCEPT
                           ![w.item] = ProcessFileRecord(w.item, w.result, w.ts,
                                                        w.result = "Heuristic")]
    /\ unsaved' = IF WorkerSaves(w.files_processed + 1)
                  THEN SaveDatabase(unsaved \cup {w.item})
                  ELSE unsaved \cup {w.item}
    /\ unsaved_merges' = IF WorkerSaves(w.files_processed + 1) THEN 0 ELSE unsaved_merges + 1
    /\ workers' = Moved(w, [NewWorker EXCEPT
                              !.files_processed = w.files_processed + 1])
    /\ wpc' = IF wpc = "saving" /\ file_database[w.item] = NoRecord
              THEN "saving_torn" ELSE wpc
    /\ UNCHANGED <<libvars, clientvars, uivars, envvars, qvars, flagvars, widx, wk,
                   processed_files, scan_no, histvars>>

(***************************************************************************)
(* simple_unified_app.parallel_scan_files (the walker)                     *)
(***************************************************************************)
\* lines 106-148: reset scan_complete, count, start the worker threads;
\* each worker starts with worker_count += 1 (line 30)
SuaStartScan ==
    /\ impl = "sua"
    /\ wpc \in {"idle", "returned"}
    /\ scan_no < max_scans
    /\ scan_no' = scan_no + 1
    /\ scan_complete' = FALSE
    /\ worker_count' = worker_count + num_workers
    /\ workers' = workers (+) Copies(NewWorker, num_workers)
    /\ processed_files' = 0
    /\ widx' = 1
    /\ wk' = 0
    /\ wpc' = "walk"
    /\ scanning_active' = TRUE
    /\ at_stop' = NoStop
    /\ offline_mode' \in (IF scan_mode \in OfflineModes
                         THEN {TRUE, FALSE} ELSE {offline_mode})
    /\ UNCHANGED <<libvars, clientvars, envvars, dbvars, qvars, histvars>>

\* lines 173-182: fresh file, skipped; counted at line 180 and in the finally
SuaWalkFresh ==
    /\ impl = "sua" /\ wpc = "walk" /\ widx <= Len(WalkOrder)
    /\ scanning_active
    /\ LET f == WalkOrder[widx] IN
         /\ size_mb[f] # StatFails
         /\ IsFresh(file_database, f, mtime[f])
    /\ processed_files' = processed_files + 2
    /\ widx' = widx + 1
    /\ UNCHANGED <<libvars, clientvars, uivars, envvars, dbvars, qvars, flagvars, wpc, wk, scan_no, workers,
                   histvars>>

\* os.path.getmtime (line 175) or os.path.getsize (line 185) raises; caught
\* at line 212, counted in the finally
SuaWalkStatFails ==
    /\ impl = "sua" /\ wpc = "walk" /\ widx <= Len(WalkOrder)
    /\ scanning_active
    /\ size_mb[WalkOrder[widx]] = StatFails
    /\ processed_files' = processed_files + 1
    /\ widx' = widx + 1
    /\ UNCHANGED <<libvars, clientvars, uivars, envvars, dbvars, qvars, flagvars, wpc, wk, scan_no, workers,
                   histvars>>

\* lines 186-199: an oversize file gets its record from the walker; counted
\* at line 197 and in the finally
SuaWalkLarge ==
    /\ impl = "sua" /\ wpc = "walk" /\ widx <= Len(WalkOrder)
    /\ scanning_active
    /\ LET f == WalkOrder[widx] IN
         /\ size_mb[f] # StatFails
         /\ ~IsFresh(file_database, f, mtime[f])
         /\ IsOversize(size_mb[f])
         /\ \E t \in ClockReads(now) :
              /\ now' = t
              /\ file_database' = [file_database EXCEPT ![f] = LargeFileRecord(f, t)]
         /\ unsaved' = unsaved \cup {f}
         /\ unsaved_merges' = unsaved_merges + 1
    /\ processed_files' = processed_files + 2
    /\ widx' = widx + 1
    /\ UNCHANGED <<libvars, clientvars, uivars, cfgvars, size_mb, unreadable, mtime, changed,
                   qvars, flagvars, wpc, wk, scan_no, workers, histvars>>

\* lines 201-210: put the file on the queue (put blocks while the queue is
\* full), then save the database if processed_files % 100 == 0
SuaWalkEnqueue ==
    /\ impl = "sua" /\ wpc = "walk" /\ widx <= Len(WalkOrder)
    /\ scanning_active
    /\ LET f == WalkOrder[widx] IN
         /\ size_mb[f] # StatFails
         /\ ~IsFresh(file_database, f, mtime[f])
         /\ ~IsOversize(size_mb[f])
         /\ ~QueueFull(file_queue)
         /\ file_queue' = Append(file_queue, f)
         /\ enqueued' = [enqueued EXCEPT ![f] = @ + 1]
    /\ unfinished_tasks' = unfinished_tasks + 1
    /\ unsaved' = IF WalkerSaves(processed_files)
                  THEN SaveDatabase(unsaved) ELSE unsaved
    /\ unsaved_merges' = IF WalkerSaves(processed_files) THEN 0 ELSE unsaved_merges
    /\ processed_files' = processed_files + 1
    /\ widx' = widx + 1
    /\ UNCHANGED <<libvars, clientvars, uivars, envvars, file_database, flagvars, wpc, wk, scan_no, workers,
                   classify_calls, preview_calls, sentinels_put, sentinels_got,
                   flag_exits, crashed>>

\* lines 157-158, 164-165, 225: the poll finds the flag cleared; break out
\* of the loops of every remaining root, then scan_complete = True
SuaCancel ==
    /\ impl = "sua" /\ wpc = "walk" /\ widx <= Len(WalkOrder)
    /\ ~scanning_active
    /\ scan_complete' = TRUE
    /\ wpc' = "sentinels"
    /\ wk' = 0
    /\ UNCHANGED <<libvars, clientvars, uivars, envvars, dbvars, qvars, worker_count, widx,
                   processed_files, scan_no, workers, histvars>>

\* line 225: the work pass is over, scan_complete = True
SuaWalkDone ==
    /\ impl = "sua" /\ wpc = "walk" /\ widx > Len(WalkOrder)
    /\ scan_complete' = TRUE
    /\ wpc' = "sentinels"
    /\ wk' = 0
    /\ UNCHANGED <<libvars, clientvars, uivars, envvars, dbvars, qvars, worker_count, widx,
                   processed_files, scan_no, workers, histvars>>

\* lines 231-232: file_queue.put(None) blocks while the queue is full
SuaPutSentinel ==
    /\ impl = "sua" /\ wpc = "sentinels" /\ wk < num_workers
    /\ ~QueueFull(file_queue)
    /\ file_queue' = Append(file_queue, Sentinel)
    /\ unfinished_tasks' = unfinished_tasks + 1
    /\ sentinels_put' = sentinels_put + 1
    /\ wk' = wk + 1
    /\ UNCHANGED <<libvars, clientvars, uivars, envvars, dbvars, flagvars, wpc, widx,
                   processed_files, scan_no, workers, classify_calls,
                   preview_calls, enqueued, sentinels_got, flag_exits, crashed>>

\* the sentinel loop is over; go on to the joins
SuaSentinelsDone ==
    /\ impl = "sua" /\ wpc = "sentinels" /\ wk = num_workers
    /\ wpc' = "join"
    /\ wk' = 0
    /\ UNCHANGED <<libvars, clientvars, uivars, envvars, dbvars, qvars, flagvars, widx, processed_files,
                   scan_no, workers, histvars>>

\* lines 235-236: worker.join(timeout=0.5) returns when the thread has
\* ended or when the half second is over
SuaJoin ==
    /\ impl = "sua" /\ wpc = "join" /\ wk < num_workers
    /\ wk' = wk + 1
    /\ UNCHANGED <<libvars, clientvars, uivars, envvars, dbvars, qvars, flagvars, wpc, widx,
                   processed_files, scan_no, workers, histvars>>

\* lines 240-243: the final save, then return
SuaFinalSave ==
    /\ impl = "sua" /\ wpc = "join" /\ wk = num_workers
    /\ unsaved' = SaveDatabase(unsaved)
    /\ unsaved_merges' = 0
    /\ wpc' = "returned"
    /\ scanning_active' = FALSE
    /\ UNCHANGED <<libvars, clientvars, offline_mode, at_stop, envvars, file_database, qvars, flagvars, widx, wk,
                   processed_files, scan_no, workers, histvars>>

(***************************************************************************)
(* simple_unified_app.process_file_worker (the same loop as                *)
(* qt_file_classifier.ScannerThread.process_file_worker)                   *)
(***************************************************************************)
\* lines 35-41: file_queue.get(timeout=0.5) returns a file
SuaWorkerGet(w) ==
    /\ impl = "sua" /\ w.pc = "get"
    /\ ~QueueEmpty(file_queue)
    /\ Head(file_queue) # Sentinel
    /\ file_queue' = Tail(file_queue)
    /\ workers' = Moved(w, [w EXCEPT !.pc = "process", !.item = Head(file_queue)])
    /\ UNCHANGED <<libvars, clientvars, uivars, envvars, dbvars, unfinished_tasks, flagvars, walkvars,
                   histvars>>

\* lines 35-37, 89-94: the get returns None; break, task_done in the inner
\* finally, worker_count -= 1 in the outer finally
SuaWorkerGetSentinel(w) ==
    /\ impl = "sua" /\ w.pc = "get"
    /\ ~QueueEmpty(file_queue)
    /\ Head(file_queue) = Sentinel
    /\ file_queue' = Tail(file_queue)
    /\ sentinels_got' = sentinels_got + 1
    /\ unfinished_tasks' = TaskDone(unfinished_tasks)
    /\ crashed' = crashed + (IF TaskDoneRaises(unfinished_tasks) THEN 1 ELSE 0)
    /\ worker_count' = worker_count - 1
    /\ workers' = Ended(w)
    /\ UNCHANGED <<libvars, clientvars, uivars, envvars, dbvars, scan_complete, walkvars, classify_calls,
                   preview_calls, enqueued, sentinels_put, flag_exits>>

\* lines 79-84, 89-91: the get timed out on an empty queue and scan_complete
\* is not set: continue, through the inner finally's task_done(); when
\* task_done raises ValueError the exception leaves the loop and the thread
\* ends (outer finally: worker_count -= 1)
SuaWorkerEmptyWait(w) ==
    /\ impl = "sua" /\ w.pc = "get"
    /\ QueueEmpty(file_queue)
    /\ ~scan_complete
    /\ unfinished_tasks' = TaskDone(unfinished_tasks)
    /\ IF TaskDoneRaises(unfinished_tasks)
       THEN /\ workers' = Ended(w)
            /\ crashed' = crashed + 1
            /\ worker_count' = worker_count - 1
       ELSE /\ workers' = Moved(w, w)
            /\ UNCHANGED <<crashed, worker_count>>
    /\ UNCHANGED <<libvars, clientvars, uivars, envvars, dbvars, file_queue, scan_complete, walkvars,
                   classify_calls, preview_calls, enqueued, sentinels_put,
                   sentinels_got, flag_exits>>

\* lines 79-82, 89-94: the get timed out, scan_complete is set and the queue
\* is empty: break, task_done in the inner finally, the thread ends
SuaWorkerEmptyDone(w) ==
    /\ impl = "sua" /\ w.pc = "get"
    /\ QueueEmpty(file_queue)
    /\ scan_complete
    /\ unfinished_tasks' = TaskDone(unfinished_tasks)
    /\ crashed' = crashed + (IF TaskDoneRaises(unfinished_tasks) THEN 1 ELSE 0)
    /\ flag_exits' = flag_exits + 1
    /\ worker_count' = worker_count - 1
    /\ workers' = Ended(w)
    /\ UNCHANGED <<libvars, clientvars, uivars, envvars, dbvars, file_queue, scan_complete, walkvars,
                   classify_calls, preview_calls, enqueued, sentinels_put,
                   sentinels_got>>

\* lines 43-64: preview the file, load the configuration and, unless it has
\* offline_mode set, call the classifier function, which returns a record
SuaWorkerClassify(w) ==
    /\ impl = "sua" /\ w.pc = "process"
    /\ preview_calls' = [preview_calls EXCEPT ![w.item] = @ + 1]
    /\ classify_calls' = IF offline_mode THEN classify_calls
                         ELSE [classify_calls EXCEPT ![w.item] = @ + 1]
    /\ workers' = Moved(w, [w EXCEPT
           !.pc = "merge",
           !.result = IF offline_mode THEN "Heuristic" ELSE "Label"])
    /\ UNCHANGED <<libvars, clientvars, uivars, envvars, dbvars, qvars, flagvars, walkvars, enqueued,
                   sentinels_put, sentinels_got, flag_exits, crashed>>

\* lines 43-64, 86-91: the classifier function raises; the exception is
\* printed, no record is stored, task_done in the finally
SuaWorkerClassifyRaises(w) ==
    /\ impl = "sua" /\ w.pc = "process"
    /\ ~offline_mode
    /\ preview_calls' = [preview_calls EXCEPT ![w.item] = @ + 1]
    /\ classify_calls' = [classify_calls EXCEPT ![w.item] = @ + 1]
    /\ unfinished_tasks' = TaskDone(unfinished_tasks)
    /\ IF TaskDoneRaises(unfinished_tasks)
       THEN /\ workers' = Ended(w)
            /\ crashed' = crashed + 1
            /\ worker_count' = worker_count - 1
       ELSE /\ workers' = Moved(w, NewWorker)
            /\ UNCHANGED <<crashed, worker_count>>
    /\ UNCHANGED <<libvars, clientvars, uivars, envvars, dbvars, file_queue, scan_complete, walkvars,
                   enqueued, sentinels_put, sentinels_got, flag_exits>>

\* lines 66-77, 89-91: under results_lock, store the record with
\* scan_timestamp = time.time(); task_done in the finally
SuaWorkerMerge(w) ==
    /\ impl = "sua" /\ w.pc = "merge"
    /\ \E t \in ClockReads(now) :
         /\ now' = t
         /\ file_database' = [file_database EXCEPT
                                ![w.item] = SuaRecord(w.item, w.result, t,
                                                 w.result = "Heuristic")]
    /\ unsaved' = unsaved \cup {w.item}
    /\ unsaved_merges' = unsaved_merges + 1
    /\ unfinished_tasks' = TaskDone(unfinished_tasks)
    /\ IF TaskDoneRaises(unfinished_tasks)
       THEN /\ workers' = Ended(w)
            /\ crashed' = crashed + 1
            /\ worker_count' = worker_count - 1
       ELSE /\ workers' = Moved(w, NewWorker)
            /\ UNCHANGED <<crashed, worker_count>>
    /\ UNCHANGED <<libvars, clientvars, uivars, cfgvars, size_mb, unreadable, mtime, changed,
                   file_queue, scan_complete, walkvars, classify_calls,
                   preview_calls, enqueued, sentinels_put, sentinels_got,
                   flag_exits>>

(***************************************************************************)
(* file_classifier.scan_files (sequential)                                 *)
(***************************************************************************)
\* lines 274-300: count, processed_files = 0
SeqStartScan ==
    /\ impl = "seq"
    /\ wpc \in {"idle", "returned"}
    /\ scan_no < max_scans
    /\ scan_no' = scan_no + 1
    /\ processed_files' = 0
    /\ widx' = 1
    /\ wpc' = "walk"
    /\ scanning_active' = TRUE
    /\ at_stop' = NoStop
    /\ offline_mode' = (scan_mode \in OfflineModes)
    /\ UNCHANGED <<libvars, clientvars, envvars, dbvars, qvars, flagvars, wk, workers, histvars>>

\* lines 322-331: fresh file, skipped; counted at line 329 and in the finally
SeqWalkFresh ==
    /\ impl = "seq" /\ wpc = "walk" /\ widx <= Len(WalkOrder)
    /\ scanning_active
    /\ LET f == WalkOrder[widx] IN
         /\ size_mb[f] # StatFails
         /\ IsFresh(file_database, f, mtime[f])
    /\ processed_files' = processed_files + 2
    /\ widx' = widx + 1
    /\ UNCHANGED <<libvars, clientvars, uivars, envvars, dbvars, qvars, flagvars, wpc, wk, scan_no, workers,
                   histvars>>

\* os.path.getmtime (line 324) or os.path.getsize (line 334) raises; caught
\* at line 370, counted in the finally
SeqWalkStatFails ==
    /\ impl = "seq" /\ wpc = "walk" /\ widx <= Len(WalkOrder)
    /\ scanning_active
    /\ size_mb[WalkOrder[widx]] = StatFails
    /\ processed_files' = processed_files + 1
    /\ widx' = widx + 1
    /\ UNCHANGED <<libvars, clientvars, uivars, envvars, dbvars, qvars, flagvars, wpc, wk, scan_no, workers,
                   histvars>>

\* lines 335-347: an oversize file gets its record at once; counted at line
\* 345 and in the finally
SeqWalkLarge ==
    /\ impl = "seq" /\ wpc = "walk" /\ widx <= Len(WalkOrder)
    /\ scanning_active
    /\ LET f == WalkOrder[widx] IN
         /\ size_mb[f] # StatFails
         /\ ~IsFresh(file_database, f, mtime[f])
         /\ IsOversize(size_mb[f])
         /\ \E t \in ClockReads(now) :
              /\ now' = t
              /\ file_database' = [file_database EXCEPT ![f] = LargeFileRecord(f, t)]
         /\ unsaved' = unsaved \cup {f}
         /\ unsaved_merges' = unsaved_merges + 1
    /\ processed_files' = processed_files + 2
    /\ widx' = widx + 1
    /\ UNCHANGED <<libvars, clientvars, uivars, cfgvars, size_mb, unreadable, mtime, changed,
                   qvars, flagvars, wpc, wk, scan_no, workers, histvars>>

\* lines 349-368: preview, classify, store the record, save the database if
\* processed_files % 100 == 0
SeqWalkClassify ==
    /\ impl = "seq" /\ wpc = "walk" /\ widx <= Len(WalkOrder)
    /\ scanning_active
    /\ LET f == WalkOrder[widx] IN
         /\ size_mb[f] # StatFails
         /\ ~IsFresh(file_database, f, mtime[f])
         /\ ~IsOversize(size_mb[f])
         /\ preview_calls' = [preview_calls EXCEPT ![f] = @ + 1]
         /\ classify_calls' = [classify_calls EXCEPT ![f] = @ + 1]
         /\ \E t \in ClockReads(now) :
              /\ now' = t
              /\ file_database' = [file_database EXCEPT
                                     ![f] = SeqRecord(f, "Label", t)]
         /\ unsaved' = IF WalkerSaves(processed_files)
                       THEN SaveDatabase(unsaved \cup {f}) ELSE unsaved \cup {f}
         /\ unsaved_merges' = IF WalkerSaves(processed_files) THEN 0 ELSE unsaved_merges + 1
    /\ processed_files' = processed_files + 1
    /\ widx' = widx + 1
    /\ UNCHANGED <<libvars, clientvars, uivars, cfgvars, size_mb, unreadable, mtime, changed,
                   qvars, flagvars, wpc, wk, scan_no, workers, enqueued,
                   sentinels_put, sentinels_got, flag_exits, crashed>>

\* lines 349-353, 370-375: the classifier function raises; the exception is
\* printed and no record is stored
SeqWalkClassifyRaises ==
    /\ impl = "seq" /\ wpc = "walk" /\ widx <= Len(WalkOrder)
    /\ scanning_active
    /\ LET f == WalkOrder[widx] IN
         /\ size_mb[f] # StatFails
         /\ ~IsFresh(file_database, f, mtime[f])
         /\ ~IsOversize(size_mb[f])
         /\ preview_calls' = [preview_calls EXCEPT ![f] = @ + 1]
         /\ classify_calls' = [classify_calls EXCEPT ![f] = @ + 1]
    /\ processed_files' = processed_files + 1
    /\ widx' = widx + 1
    /\ UNCHANGED <<libvars, clientvars, uivars, envvars, dbvars, qvars, flagvars, wpc, wk, scan_no, workers,
                   enqueued, sentinels_put, sentinels_got, flag_exits, crashed>>

\* lines 306-307, 313-314: the poll finds the flag cleared; return
SeqCancel ==
    /\ impl = "seq" /\ wpc = "walk" /\ widx <= Len(WalkOrder)
    /\ ~scanning_active
    /\ wpc' = "returned"
    /\ UNCHANGED <<libvars, clientvars, uivars, envvars, dbvars, qvars, flagvars, widx, wk,
                   processed_files, scan_no, workers, histvars>>

\* lines 380-383: the final save, then return
SeqFinalSave ==
    /\ impl = "seq" /\ wpc = "walk" /\ widx > Len(WalkOrder)
    /\ unsaved' = SaveDatabase(unsaved)
    /\ unsaved_merges' = 0
    /\ wpc' = "returned"
    /\ scanning_active' = FALSE
    /\ UNCHANGED <<libvars, clientvars, offline_mode, at_stop, envvars, file_database, qvars, flagvars, widx, wk,
                   processed_files, scan_no, workers, histvars>>


(***************************************************************************)
(* classify_file_with_llm: one call of the classifier client.              *)
(*   "fixed"  run_file_classifier.fixed_classify_file_with_llm             *)
(*   "qt"     qt_file_classifier.classify_file_with_llm                    *)
(*   "orig"   file_classifier.classify_file_with_llm (a single request)    *)
(***************************************************************************)
Clients == {"fixed", "qt", "orig"}

\* what one request to the LLM endpoint can do:
\*   "Ok"               status 200, the reply text holds a JSON object
\*   "Timeout"          requests.exceptions.Timeout
\*   "ConnectionError"  requests.exceptions.ConnectionError
\*   "Non200"           a status code other than 200
\*   "BadText"          status 200, the reply text holds no parseable JSON object
\*   "BadBody"          status 200, response.json() raises
Outcomes == {"Ok", "Timeout", "ConnectionError", "Non200", "BadText", "BadBody"}

\* a loop that gives up one iteration early
IsLastAttemptEarly(r, mr) == r >= mr - 1

\* for retry in range(max_retries + 1): the last iteration
IsLastAttempt(r, mr) == r = mr

\* backoff_time = (retry + 1) * 2
Backoff(r) == (r + 1) * 2

\* time.sleep(retry + 1) in the qt client's generic handler
QtGenericBackoff(r) == r + 1

\* the record json.loads returned
ParsedRecord == [classification |-> "Parsed", keywords |-> {"from-llm"}]

\* a fallback record tagged "Error"
FixedFallbackTaggedError ==
    [classification |-> "Error",
     keywords |-> {"error", "classification-failed", "timeout"}]

\* run_file_classifier lines 272-277
FixedFallbackRecord ==
    [classification |-> "Unknown",
     keywords |-> {"error", "classification-failed", "timeout"}]

\* run_file_classifier lines 279-285, file_classifier lines 204-210
ErrorRecord == [classification |-> "Error", keywords |-> {"error"}]

\* qt_file_classifier lines 286-291, file_classifier lines 197-202
DefaultFallbackRecord ==
    [classification |-> "Unknown", keywords |-> {"error", "classification-failed"}]

\* the early return for an empty preview
EmptyPreviewRecord == [classification |-> "Unknown", keywords |-> {}]

\* the call returns record rec
Return(rec) ==
    /\ cpc' = "done"
    /\ result' = rec.classification
    /\ keywords' = rec.keywords
    /\ UNCHANGED raised

\* a call without the outermost handler
OuterExceptMissing == FALSE

\* the outermost "except Exception" of the call catches every exception
\* the request or the loop lets through
OuterExceptCatches == TRUE

\* an exception leaves the loop (or the single request): the outermost
\* handler returns the "Error" record; uncaught, it reaches the caller
Propagate ==
    IF OuterExceptCatches
    THEN Return(ErrorRecord)
    ELSE /\ cpc' = "done"
         /\ raised' = TRUE
         /\ UNCHANGED <<result, keywords>>

\* the loop goes on to the next attempt after sleeping for wait
RetryAfter(wait) ==
    /\ retry' = retry + 1
    /\ sleeps' = Append(sleeps, wait)
    /\ UNCHANGED <<cpc, result, keywords, raised>>

\* the state before a call: the client, its configuration and what the
\* endpoint is going to do at each request
ClientInit ==
    /\ client \in Clients
    /\ max_retries \in 0..MaxRetries
    /\ script \in [1..(max_retries + 1) -> Outcomes]
    /\ cpc = "idle"
    /\ retry = 0
    /\ requests = 0
    /\ sleeps = <<>>
    /\ result = "none"
    /\ keywords = {}
    /\ raised = FALSE

\* the preview is empty: the record is returned without any request
EmptyPreview ==
    /\ cpc = "idle"
    /\ Return(EmptyPreviewRecord)
    /\ UNCHANGED <<libvars, pipevars, client, max_retries, script, retry, requests,
                   sleeps>>

\* the preview is not empty: enter the retry loop
EnterLoop ==
    /\ cpc = "idle"
    /\ cpc' = "loop"
    /\ UNCHANGED <<libvars, pipevars, client, max_retries, script, retry, requests, sleeps,
                   result, keywords, raised>>

\* run_file_classifier lines 192-285: one iteration of the retry loop
FixedAttempt ==
    /\ client = "fixed" /\ cpc = "loop"
    /\ requests' = requests + 1
    /\ LET o == script[requests + 1] IN
         CASE o = "Ok" -> Return(ParsedRecord) /\ UNCHANGED <<retry, sleeps>>
           [] o \in {"Non200", "BadText"} ->
                IF IsLastAttempt(retry, max_retries)
                THEN Return(FixedFallbackRecord) /\ UNCHANGED <<retry, sleeps>>
                ELSE RetryAfter(Backoff(retry))
           [] o \in {"Timeout", "ConnectionError"} ->
                IF IsLastAttempt(retry, max_retries)
                THEN Propagate /\ UNCHANGED <<retry, sleeps>>
                ELSE RetryAfter(Backoff(retry))
           [] o = "BadBody" -> Propagate /\ UNCHANGED <<retry, sleeps>>
    /\ UNCHANGED <<libvars, pipevars, client, max_retries, script>>

\* qt_file_classifier lines 206-291: one iteration of the retry loop
QtAttempt ==
    /\ client = "qt" /\ cpc = "loop"
    /\ requests' = requests + 1
    /\ LET o == script[requests + 1] IN
         CASE o = "Ok" -> Return(ParsedRecord) /\ UNCHANGED <<retry, sleeps>>
           [] o \in {"Non200", "BadText", "Timeout"} ->
                IF IsLastAttempt(retry, max_retries)
                THEN Return(DefaultFallbackRecord) /\ UNCHANGED <<retry, sleeps>>
                ELSE RetryAfter(Backoff(retry))
           [] o \in {"ConnectionError", "BadBody"} ->
                IF IsLastAttempt(retry, max_retries)
                THEN Return(DefaultFallbackRecord) /\ UNCHANGED <<retry, sleeps>>
                ELSE RetryAfter(QtGenericBackoff(retry))
    /\ UNCHANGED <<libvars, pipevars, client, max_retries, script>>

\* file_classifier lines 152-210: the single request
OrigAttempt ==
    /\ client = "orig" /\ cpc = "loop"
    /\ requests' = requests + 1
    /\ LET o == script[requests + 1] IN
         CASE o = "Ok" -> Return(ParsedRecord)
           [] o \in {"Non200", "BadText"} -> Return(DefaultFallbackRecord)
           [] o \in {"Timeout", "ConnectionError", "BadBody"} -> Propagate
    /\ UNCHANGED <<libvars, pipevars, client, max_retries, script, retry, sleeps>>

ClientNext ==
    \/ EmptyPreview
    \/ EnterLoop
    \/ FixedAttempt
    \/ QtAttempt
    \/ OrigAttempt

PipeNext ==
    \/ \E f \in Files : Touch(f)
    \/ Stop
    \/ RestoreConfig
    \/ PsStartScan
    \/ PsWalkFresh
    \/ PsWalkStatFails
    \/ PsWalkLargeLock
    \/ PsWalkLarge
    \/ PsWalkEnqueue
    \/ PsWalkDone
    \/ PsPutSentinel
    \/ PsPutSentinelFull
    \/ PsSentinelsDone
    \/ PsJoin
    \/ PsFinalSaveBegin
    \/ PsFinalSave
    \/ PsFinalSaveTorn
    \/ \E w \in LiveWorkers : PsWorkerGet(w)
    \/ \E w \in LiveWorkers : PsWorkerGetSentinel(w)
    \/ \E w \in LiveWorkers : PsWorkerEmptyWait(w)
    \/ \E w \in LiveWorkers : PsWorkerEmptyDone(w)
    \/ \E w \in LiveWorkers, o \in ClassifyOutcomes : PsWorkerProcess(w, o)
    \/ \E w \in LiveWorkers : PsWorkerLock(w)
    \/ \E w \in LiveWorkers : PsWorkerMerge(w)
    \/ SuaStartScan
    \/ SuaWalkFresh
    \/ SuaWalkStatFails
    \/ SuaWalkLarge
    \/ SuaWalkEnqueue
    \/ SuaCancel
    \/ SuaWalkDone
    \/ SuaPutSentinel
    \/ SuaSentinelsDone
    \/ SuaJoin
    \/ SuaFinalSave
    \/ \E w \in LiveWorkers : SuaWorkerGet(w)
    \/ \E w \in LiveWorkers : SuaWorkerGetSentinel(w)
    \/ \E w \in LiveWorkers : SuaWorkerEmptyWait(w)
    \/ \E w \in LiveWorkers : SuaWorkerEmptyDone(w)
    \/ \E w \in LiveWorkers : SuaWorkerClassify(w)
    \/ \E w \in LiveWorkers : SuaWorkerClassifyRaises(w)
    \/ \E w \in LiveWorkers : SuaWorkerMerge(w)
    \/ SeqStartScan
    \/ SeqWalkFresh
    \/ SeqWalkStatFails
    \/ SeqWalkLarge
    \/ SeqWalkClassify
    \/ SeqWalkClassifyRaises
    \/ SeqCancel
    \/ SeqFinalSave


Next == PipeNext

Spec == Init /\ [][Next]_vars

(***************************************************************************)
(* parallel_scanner.parallel_scan_files over any list of roots             *)
(***************************************************************************)
\* one scan, with several workers
InitParallel ==
    /\ PipeInit({"ps"},
                {c \in Configs : ~c.stop /\ ~c.offline /\ c.scans = 1},
                [Files -> FileSizes], {}, DrivePathLists)
    /\ ClientIdle
    /\ LibIdle

\* the walker of parallel_scan_files
PsWalker ==
    \/ PsStartScan
    \/ PsWalkFresh
    \/ PsWalkStatFails
    \/ PsWalkLargeLock
    \/ PsWalkLarge
    \/ PsWalkEnqueue
    \/ PsWalkDone
    \/ PsPutSentinel
    \/ PsPutSentinelFull
    \/ PsSentinelsDone
    \/ PsJoin
    \/ PsFinalSaveBegin
    \/ PsFinalSave
    \/ PsFinalSaveTorn

\* a thread running llm_worker
PsWorker(w) ==
    \/ PsWorkerGet(w)
    \/ PsWorkerGetSentinel(w)
    \/ PsWorkerEmptyWait(w)
    \/ PsWorkerEmptyDone(w)
    \/ \E o \in ClassifyOutcomes : PsWorkerProcess(w, o)
    \/ PsWorkerLock(w)
    \/ PsWorkerMerge(w)

NextParallel ==
    \/ PsWalker
    \/ \E w \in LiveWorkers : PsWorker(w)
    \/ \E f \in Files : Touch(f)

SpecParallel == InitParallel /\ [][NextParallel]_vars

\* scans over one root
InitParallelFair ==
    /\ PipeInit({"ps"},
                {c \in Configs : ~c.stop /\ ~c.offline},
                [Files -> FileSizes], {}, {<<"top">>})
    /\ ClientIdle
    /\ LibIdle

\* the threads are scheduled fairly: the walker's thread and the worker
\* threads each get to run; every classifier call and every save returns
\* (they are single steps).  Nothing obliges the environment to modify
\* files.
FairParallel ==
    /\ WF_vars(PsWalker)
    /\ WF_vars(\E w \in LiveWorkers : PsWorker(w))

SpecParallelFair == InitParallelFair /\ [][NextParallel]_vars /\ FairParallel

\* a call of the classifier client in an otherwise idle process
InitClient ==
    /\ PipeInit({"ps"},
                {[workers |-> 1, scans |-> 1, stop |-> FALSE, offline |-> FALSE]},
                {[f \in Files |-> max_file_size_mb]}, {}, {<<"top">>})
    /\ ClientInit
    /\ LibIdle

NextClient == ClientNext

SpecClient == InitClient /\ [][NextClient]_vars

(***************************************************************************)
(* The checkpoints of a long parallel scan of parallel_scanner.  The scan   *)
(* walks more files than Files holds; of each file the specification keeps *)
(* only what the checkpoints depend on: the worker's files_processed and   *)
(* the number of records stored since the database was last saved.         *)
(***************************************************************************)
\* llm_worker lines 76-95, one turn of the loop: get a file, process it and,
\* under results_lock, store the record and count it; the save that is due
\* every WorkerSaveEvery files of this worker succeeds
CkWorkerFile(w) ==
    /\ impl = "ps" /\ wpc = "walk" /\ w.pc = "get"
    /\ w.files_processed < MaxMerges
    /\ workers' = Moved(w, [w EXCEPT !.files_processed = @ + 1])
    /\ unsaved_merges' = IF WorkerSaves(w.files_processed + 1)
                         THEN 0 ELSE unsaved_merges + 1
    /\ UNCHANGED <<libvars, clientvars, uivars, envvars, file_database, unsaved, qvars,
                   flagvars, walkvars, histvars>>

\* llm_worker lines 89-106: the save that is due raises (the database file
\* cannot be opened or written).  The record is already stored; the only
\* handler of the loop is "except queue.Empty", so the exception leaves the
\* loop, the finally block decrements worker_count (scan_complete is still
\* False, no second save) and the thread ends
CkWorkerSaveFails(w) ==
    /\ impl = "ps" /\ wpc = "walk" /\ w.pc = "get"
    /\ w.files_processed < MaxMerges
    /\ WorkerSaves(w.files_processed + 1)
    /\ unsaved_merges' = unsaved_merges + 1
    /\ worker_count' = worker_count - 1
    /\ workers' = Ended(w)
    /\ crashed' = crashed + 1
    /\ UNCHANGED <<libvars, clientvars, uivars, envvars, file_database, unsaved, qvars,
                   scan_complete, walkvars, classify_calls, preview_calls,
                   enqueued, sentinels_put, sentinels_got, flag_exits>>

\* parallel_scan_files lines 204-215: the walker stores the record of an
\* oversize file under results_lock; no save follows
CkWalkLarge ==
    /\ impl = "ps" /\ wpc = "walk"
    /\ processed_files < NumFiles
    /\ processed_files' = processed_files + 1
    /\ unsaved_merges' = unsaved_merges + 1
    /\ UNCHANGED <<libvars, clientvars, uivars, envvars, file_database, unsaved, qvars,
                   flagvars, wpc, widx, wk, scan_no, workers, histvars>>

\* a process about to run one parallel scan with NumWorkers workers
InitCheckpoint ==
    /\ PipeInit({"ps"},
                {[workers |-> NumWorkers, scans |-> 1, stop |-> FALSE,
                  offline |-> FALSE]},
                {[f \in Files |-> max_file_size_mb]}, {}, {<<"top">>})
    /\ ClientIdle
    /\ LibIdle

NextCheckpoint ==
    \/ PsStartScan
    \/ \E w \in LiveWorkers : CkWorkerFile(w)
    \/ \E w \in LiveWorkers : CkWorkerSaveFails(w)
    \/ CkWalkLarge

SpecCheckpoint == InitCheckpoint /\ [][NextCheckpoint]_vars

(***************************************************************************)
(* Text: a str is a sequence of characters; a literal of the source that   *)
(* is never taken apart is one element.                                    *)
(***************************************************************************)
\* the characters of file names: a lower-case letter, an upper-case letter
\* and the dot
NameChars == {"a", "B", "."}

\* str.lower and str.upper on one character
LowerChar(c) == CASE c = "A" -> "a" [] c = "B" -> "b" [] OTHER -> c
UpperChar(c) == CASE c = "a" -> "A" [] c = "b" -> "B" [] OTHER -> c

Lower(s) == [i \in 1..Len(s) |-> LowerChar(s[i])]
Upper(s) == [i \in 1..Len(s) |-> UpperChar(s[i])]

\* the strings over a set of characters with lo..hi characters
Strings(chars, lo, hi) == UNION {[1..n -> chars] : n \in lo..hi}

\* p.rfind("."): the index of the last dot, 0 if there is none
LastDot(p) ==
    IF \E i \in 1..Len(p) : p[i] = "."
    THEN CHOOSE i \in 1..Len(p) : p[i] = "." /\ \A j \in (i+1)..Len(p) : p[j] # "."
    ELSE 0

\* genericpath._splitext for a name without separators: the extension
\* starts at the last dot, unless only dots come before that dot
SplitExtKeepsDotfiles(p) ==
    LET d == LastDot(p) IN
      IF d > 0 THEN <<SubSeq(p, 1, d - 1), SubSeq(p, d, Len(p))>>
      ELSE <<p, <<>>>>

SplitExt(p) ==
    LET d == LastDot(p) IN
      IF d > 0 /\ \E i \in 1..(d - 1) : p[i] # "."
      THEN <<SubSeq(p, 1, d - 1), SubSeq(p, d, Len(p))>>
      ELSE <<p, <<>>>>

(***************************************************************************)
(* parallel_scanner.process_file, called once                              *)
(***************************************************************************)
\* lines 26-39: the heuristic result in offline mode
OfflineResult(name) ==
    LET ext == SplitExt(Lower(name))[2] IN
      IF ext # <<>>
      THEN [classification |-> Upper(Tail(ext)) \o <<" file">>,
            keywords |-> <<Tail(ext)>>]
      ELSE [classification |-> <<"Unknown file type">>,
            keywords |-> << <<"unknown">> >>]

\* lines 22-64: process_file.  config.get("offline_mode", False) decides
\* between the heuristic and classify_func; the record's offline_indexed is
\* that same value; when classify_func raises, the "Error" record, which
\* has no offline_indexed, is returned
ProcessFile ==
    /\ process_file_result = NoResult
    /\ IF config = "true"
       THEN /\ process_file_result' =
                 [classification |-> OfflineResult(file_name).classification,
                  keywords |-> OfflineResult(file_name).keywords,
                  offline_indexed |-> "true"]
            /\ UNCHANGED classify_func_calls
       ELSE /\ classify_func_calls' = classify_func_calls + 1
            /\ process_file_result' =
                 IF classify_func = "raise"
                 THEN [classification |-> <<"Error">>,
                       keywords |-> << <<"error">>, <<"processing_failed">> >>,
                       offline_indexed |-> "absent"]
                 ELSE [classification |-> <<"Label">>,
                       keywords |-> <<>>,
                       offline_indexed |-> "false"]
    /\ UNCHANGED <<unifiedvars, qtvars, embedvars, pipevars, clientvars, resumevars, searchvars, file_name,
                   config, classify_func>>

\* a call of process_file with any file name, with offline_mode true, false
\* or not in the configuration, and a classifier that returns or raises
InitProcessFile ==
    /\ PipeInit({"ps"},
                {[workers |-> 1, scans |-> 1, stop |-> FALSE, offline |-> FALSE]},
                {[f \in Files |-> max_file_size_mb]}, {}, {<<"top">>})
    /\ ClientIdle
    /\ file_name \in Strings(NameChars, 1, MaxNameLen)
    /\ config \in {"true", "false", "absent"}
    /\ classify_func \in ClassifyOutcomes
    /\ process_file_result = NoResult
    /\ classify_func_calls = 0
    /\ ResumeIdle
    /\ SearchIdle /\ EmbedIdle /\ QtIdle /\ UnifiedIdle

NextProcessFile == ProcessFile

SpecProcessFile == InitProcessFile /\ [][NextProcessFile]_vars

(***************************************************************************)
(* file_classifier: keyword_search, semantic_search, search_files          *)
(* Scores are counted in tenths: 3 stands for 0.3.                         *)
(***************************************************************************)
\* Python's "sub in s" on strings
Contains(sub, s) ==
    \E i \in 0..(Len(s) - Len(sub)) : SubSeq(s, i + 1, i + Len(sub)) = sub

\* query.strip() is empty
IsBlank(q) == \A i \in 1..Len(q) : q[i] = " "

\* the texts of the searched records: with the letter of the query in
\* upper case, or without it
ItemNames == {<<"b", "A">>, <<"b">>}
ItemClassifications == {<<"a">>, <<"b">>}
ItemSummaries == {<<>>, <<"A">>, <<"b">>}
ItemKeywords == {<<>>, << <<"b">> >>, << <<"b">>, <<"A">> >>,
                 << <<"a">>, <<"A", "b">> >>}
Queries == {<<"A">>, <<" ">>}
\* cosine similarities, in tenths: exactly 0.5 and above it
Similarities == {5, 6}

\* the databases searched: up to MaxItems records, each under its own path
ItemLists ==
    UNION {[1..n -> [name : ItemNames, classification : ItemClassifications,
                     summary : ItemSummaries, keywords : ItemKeywords]]
           : n \in 0..MaxItems}

\* list.sort(key=score, reverse=True) on entries whose second component is
\* the score: descending, and stable (entries of equal score keep their
\* order); InsertByScore puts e behind every entry that is not smaller
RECURSIVE InsertByScoreUnstable(_, _)
InsertByScoreUnstable(sorted, e) ==
    IF sorted = <<>> THEN <<e>>
    ELSE IF Head(sorted)[2] > e[2]
         THEN <<Head(sorted)>> \o InsertByScoreUnstable(Tail(sorted), e)
         ELSE <<e>> \o sorted

RECURSIVE InsertByScore(_, _)
InsertByScore(sorted, e) ==
    IF sorted = <<>> THEN <<e>>
    ELSE IF Head(sorted)[2] >= e[2]
         THEN <<Head(sorted)>> \o InsertByScore(Tail(sorted), e)
         ELSE <<e>> \o sorted

RECURSIVE SortByScore(_)
SortByScore(entries) ==
    IF entries = <<>> THEN <<>>
    ELSE InsertByScore(SortByScore(SubSeq(entries, 1, Len(entries) - 1)),
                       entries[Len(entries)])

\* a score that adds 2 for every matching keyword
KeywordScorePerKeyword(q, item) ==
    LET ql == Lower(q) IN
      (IF Contains(ql, Lower(item.name)) THEN 3 ELSE 0)
      + (IF Contains(ql, Lower(item.classification)) THEN 2 ELSE 0)
      + (IF Contains(ql, Lower(item.summary)) THEN 3 ELSE 0)
      + 2 * Cardinality({k \in 1..Len(item.keywords) :
                           Contains(ql, Lower(item.keywords[k]))})

\* lines 455-477: the score of one record; the keyword loop breaks at the
\* first keyword that matches
KeywordScore(q, item) ==
    LET ql == Lower(q) IN
      (IF Contains(ql, Lower(item.name)) THEN 3 ELSE 0)
      + (IF Contains(ql, Lower(item.classification)) THEN 2 ELSE 0)
      + (IF Contains(ql, Lower(item.summary)) THEN 3 ELSE 0)
      + (IF \E k \in 1..Len(item.keywords) :
               Contains(ql, Lower(item.keywords[k])) THEN 2 ELSE 0)

\* the entries <<path, score[path]>> of the paths in keep among 1..n, in
\* the order of the paths
RECURSIVE Scored(_, _, _)
Scored(n, score, keep) ==
    IF n = 0 THEN <<>>
    ELSE Scored(n - 1, score, keep)
         \o (IF n \in keep THEN << <<n, score[n]>> >> ELSE <<>>)

\* lines 453-484, keyword_search: the records with a positive score, sorted
KeywordSearch(q, its) ==
    LET score == [i \in 1..Len(its) |-> KeywordScore(q, its[i])]
        keep == {i \in 1..Len(its) : score[i] > 0}
    IN SortByScore(Scored(Len(its), score, keep))

\* a semantic search that gives up when one summary has no embedding
SemanticSearchGivesUp(qok, sim, its) ==
    IF ~qok \/ \E i \in 1..Len(its) : /\ its[i].summary # <<>>
                                      /\ sim[its[i].summary] = EmbedFails
    THEN <<>>
    ELSE LET keep == {i \in 1..Len(its) : its[i].summary # <<>>}
             score == [i \in 1..Len(its) |->
                         IF i \in keep THEN sim[its[i].summary] ELSE EmbedFails]
             sorted == SortByScore(Scored(Len(its), score, keep))
         IN SubSeq(sorted, 1, IF Len(sorted) < TopK THEN Len(sorted) ELSE TopK)

\* lines 425-450, semantic_search: nothing when the query has no embedding;
\* records without summary or whose summary has no embedding are skipped;
\* the rest is sorted by similarity and cut to the first TopK
SemanticSearch(qok, sim, its) ==
    IF ~qok THEN <<>>
    ELSE LET keep == {i \in 1..Len(its) : /\ its[i].summary # <<>>
                                          /\ sim[its[i].summary] # EmbedFails}
             score == [i \in 1..Len(its) |->
                         IF i \in keep THEN sim[its[i].summary] ELSE EmbedFails]
             sorted == SortByScore(Scored(Len(its), score, keep))
         IN SubSeq(sorted, 1, IF Len(sorted) < TopK THEN Len(sorted) ELSE TopK)

\* the paths of the entries of a result list
Paths(results) == {results[i][1] : i \in 1..Len(results)}

AboveThresholdInclusive(score) == score >= SemanticThreshold

\* line 515: score > 0.5
AboveThreshold(score) == score > SemanticThreshold

\* a merge that does not look at the paths already seen
RECURSIVE CombineNoSeen(_, _, _)
CombineNoSeen(combined, entries, tag) ==
    IF entries = <<>> THEN combined
    ELSE LET e == Head(entries) IN
           CombineNoSeen(IF tag = "semantic" => AboveThreshold(e[2])
                         THEN Append(combined, <<e[1], e[2], tag>>)
                         ELSE combined,
                         Tail(entries), tag)

\* lines 506-517: the entries are appended with their tag, an entry whose
\* path is there already is left out, a semantic entry also when its score
\* is not above the threshold
RECURSIVE Combine(_, _, _)
Combine(combined, entries, tag) ==
    IF entries = <<>> THEN combined
    ELSE LET e == Head(entries) IN
           Combine(IF e[1] \notin Paths(combined)
                      /\ (tag = "semantic" => AboveThreshold(e[2]))
                   THEN Append(combined, <<e[1], e[2], tag>>)
                   ELSE combined,
                   Tail(entries), tag)

CombinedUnsorted(combined) == combined

\* lines 519-520: the final sort of the combined list
CombinedSorted(combined) == SortByScore(combined)

\* lines 487-521, search_files: a blank query empties search_results;
\* otherwise keyword results, then semantic results, merged and sorted
SearchFiles ==
    /\ ~searched
    /\ searched' = TRUE
    /\ IF IsBlank(query)
       THEN /\ search_results' = <<>>
            /\ UNCHANGED <<keyword_results, semantic_results>>
       ELSE /\ keyword_results' = KeywordSearch(query, items)
            /\ semantic_results' = SemanticSearch(query_embeds, similarity, items)
            /\ search_results' =
                 CombinedSorted(Combine(Combine(<<>>, keyword_results', "keyword"),
                                        semantic_results', "semantic"))
    /\ UNCHANGED <<unifiedvars, qtvars, embedvars, pipevars, clientvars, pfvars, resumevars, query, items,
                   query_embeds, similarity>>

\* a call of search_files with any query over any database, with an
\* embedder that fails or not for the query and for each summary
InitSearch ==
    /\ PipeInit({"seq"},
                {[workers |-> 1, scans |-> 1, stop |-> FALSE, offline |-> FALSE]},
                {[f \in Files |-> max_file_size_mb]}, {}, {<<"top">>})
    /\ ClientIdle
    /\ ProcessFileIdle
    /\ ResumeIdle /\ EmbedIdle /\ QtIdle /\ UnifiedIdle
    /\ query \in Queries
    /\ items \in ItemLists
    /\ query_embeds \in BOOLEAN
    /\ similarity \in [ItemSummaries \ {<<>>} -> Similarities \cup {EmbedFails}]
    /\ keyword_results = <<>>
    /\ semantic_results = <<>>
    /\ search_results = <<>>
    /\ searched = FALSE

NextSearch == SearchFiles

SpecSearch == InitSearch /\ [][NextSearch]_vars

(***************************************************************************)
(* file_classifier.get_embedding and its cache                             *)
(***************************************************************************)
\* a cache test that never finds the text
InCacheNever(cache, t) == FALSE

\* line 407: text in embeddings_cache
InCache(cache, t) == cache[t] # NotCached

\* get_embedding(t), lines 403-422. loads: init_embedding_model, if it is
\* called, gets a model; enc: what embedding_model.encode does, a vector or
\* EmbedFails for an exception
GetEmbedding(t, loads, enc) ==
    /\ get_calls[t] + get_calls[CHOOSE u \in Texts : u # t] < MaxEmbedCalls
    /\ get_calls' = [get_calls EXCEPT ![t] = @ + 1]
    /\ embed_text' = t
    /\ IF InCache(embeddings_cache, t)
       THEN /\ embed_result' = embeddings_cache[t]
            /\ UNCHANGED <<embeddings_cache, embedding_model, encode_calls,
                           model_inits>>
       ELSE /\ model_inits' = IF embedding_model = "None"
                              THEN model_inits + 1 ELSE model_inits
            /\ embedding_model' = IF embedding_model = "None" /\ ~loads
                                  THEN "None" ELSE "loaded"
            /\ IF embedding_model' = "None"
               THEN /\ embed_result' = EmbedFails
                    /\ UNCHANGED <<embeddings_cache, encode_calls>>
               ELSE /\ encode_calls' = [encode_calls EXCEPT ![t] = @ + 1]
                    /\ embed_result' = enc
                    /\ embeddings_cache' =
                         IF enc = EmbedFails THEN embeddings_cache
                         ELSE [embeddings_cache EXCEPT ![t] = enc]
    /\ UNCHANGED <<pipevars, clientvars, pfvars, resumevars, searchvars,
                   qtvars, unifiedvars>>

\* the model may have been loaded by the start-up thread or not
InitEmbed ==
    /\ PipeInit({"seq"}, {[workers |-> 0, scans |-> 0, stop |-> FALSE,
                           offline |-> FALSE]},
                [Files -> {max_file_size_mb}], {}, {<<"top">>})
    /\ ClientIdle
    /\ ProcessFileIdle /\ ResumeIdle /\ SearchIdle
    /\ EmbedCacheEmpty
    /\ embedding_model \in {"None", "loaded"}
    /\ QtIdle /\ UnifiedIdle

NextEmbed ==
    \E t \in Texts, loads \in BOOLEAN, enc \in Vectors \cup {EmbedFails} :
        GetEmbedding(t, loads, enc)

SpecEmbed == InitEmbed /\ [][NextEmbed]_vars

(***************************************************************************)
(* qt_file_classifier: FileClassifierApp's Scan and Stop buttons and the   *)
(* ScannerThread they start.  The thread's loops poll is_cancelled at each *)
(* directory of the count pass and at each directory and file of the work  *)
(* pass; qidx counts the polls of the current pass.                        *)
(***************************************************************************)
QtScanModes == {"standard", "offline", "parallel", "turbo"}

\* ScannerThread.run: these modes run parallel_scan_files
QtParallelModes == {"parallel", "turbo"}

\* what the cancelled loop does: sequential_scan_files and the count pass
\* of parallel_scan_files `return`; the work pass of parallel_scan_files
\* breaks out of its loops and goes on to the end of the function
Cancelled(pass, mode) ==
    IF pass = "work" /\ mode \in QtParallelModes THEN "finish" ELSE "returned"

\* on_scan, lines 1130-1156: ignored while a scan is active; otherwise the
\* application marks the scan active and starts a new ScannerThread
OnScan(mode) ==
    /\ ~qt_scanning_active
    /\ qt_scans < MaxScans
    /\ qt_scanning_active' = TRUE
    /\ qt_scan_mode' = mode
    /\ is_cancelled' = FALSE
    /\ qpc' = "count"
    /\ qidx' = 1
    /\ qt_scans' = qt_scans + 1
    /\ UNCHANGED <<qtrest, scan_complete_signal>>

\* on_stop_scan, lines 1158-1162, and ScannerThread.cancel
OnStopScan ==
    /\ qt_scanning_active /\ qt_scans >= 1
    /\ ~is_cancelled
    /\ is_cancelled' = TRUE
    /\ UNCHANGED <<qtrest, qt_scanning_active, qt_scan_mode, qpc, qidx,
                   scan_complete_signal, qt_scans>>

\* one turn of a loop of the count pass or of the work pass: the poll of
\* is_cancelled, then the directory or file is dealt with
QtLoop ==
    /\ qpc \in {"count", "work"}
    /\ IF is_cancelled
       THEN qpc' = Cancelled(qpc, qt_scan_mode) /\ UNCHANGED qidx
       ELSE IF qidx < NumFiles
            THEN qidx' = qidx + 1 /\ UNCHANGED qpc
            ELSE /\ qidx' = 1
                 /\ qpc' = IF qpc = "count" THEN "work" ELSE "finish"
    /\ UNCHANGED <<qtrest, qt_scanning_active, qt_scan_mode, is_cancelled,
                   scan_complete_signal, qt_scans>>

\* the end of the scan function (lines 514-517, 710-727): in parallel mode
\* the flag, the sentinels and the joins, which give up after half a
\* second; then save_database() and scan_complete.emit()
QtFinish ==
    /\ qpc = "finish"
    /\ scan_complete_signal' = TRUE
    /\ qpc' = "returned"
    /\ UNCHANGED <<qtrest, qt_scanning_active, qt_scan_mode, is_cancelled, qidx,
                   qt_scans>>

\* on_scan_complete, lines 1172-1176: the slot connected to scan_complete
\* runs in the GUI thread
OnScanComplete ==
    /\ scan_complete_signal
    /\ scan_complete_signal' = FALSE
    /\ qt_scanning_active' = FALSE
    /\ UNCHANGED <<qtrest, qt_scan_mode, is_cancelled, qpc, qidx, qt_scans>>

\* the scanner thread
QtScannerThread == QtLoop \/ QtFinish

InitQt ==
    /\ PipeInit({"seq"}, {[workers |-> 0, scans |-> 0, stop |-> FALSE,
                           offline |-> FALSE]},
                {[f \in Files |-> max_file_size_mb]}, {}, {<<"top">>})
    /\ ClientIdle
    /\ LibIdle

NextQt ==
    \/ \E mode \in QtScanModes : OnScan(mode)
    \/ OnStopScan
    \/ QtScannerThread
    \/ OnScanComplete

\* the scanner thread is scheduled and the GUI thread's event loop delivers
\* the signal; nothing obliges the user to press a button
FairQt == WF_vars(QtScannerThread) /\ WF_vars(OnScanComplete)

SpecQt == InitQt /\ [][NextQt]_vars /\ FairQt

(***************************************************************************)
(* unified_scan: simple_unified_app.unified_scan (lines 245-299) and       *)
(* unified_scanner.unified_scan (lines 21-82) as unified_app calls it.     *)
(* Both save offline_mode = True for the modes "offline" and "turbo",      *)
(* start the scan thread and then a thread that writes the original value  *)
(* back.  app_scanning_active is the scanning_active of the application    *)
(* module, the name its Scan and Stop buttons and, in simple_unified_app,  *)
(* its restore thread read: `from file_classifier import *` gives each     *)
(* application module a binding of its own, so file_classifier.scan_files  *)
(* (which assigns file_classifier.scanning_active) never changes it.       *)
(***************************************************************************)
UnifiedApps == {"simple_unified_app", "unified_app"}

UnifiedScanModes == {"standard", "offline", "parallel", "turbo"}

\* the modes that run parallel_scan_files
ParallelModes == {"parallel", "turbo"}

\* whether unified_scan can write the configuration: simple_unified_app
\* calls save_config directly; unified_app passes save_config in kwargs
\* only for the sequential modes (unified_app.py lines 121-139)
HasSaveConfig(a, mode) ==
    a = "simple_unified_app" \/ mode \notin ParallelModes

\* whether the scan function assigns the application module's
\* scanning_active: only simple_unified_app.parallel_scan_files does
\* (lines 107 and 242)
SetsAppFlag(a, mode) ==
    a = "simple_unified_app" /\ mode \in ParallelModes

\* the Scan button: unified_scan up to its return, and in unified_app the
\* assignment scanning_active = True that follows the call (line 141)
UnifiedScan(mode) ==
    /\ ~app_scanning_active
    /\ unified_scans < MaxScans
    /\ LET n == unified_scans + 1 IN
         /\ unified_scans' = n
         /\ unified_mode' = [unified_mode EXCEPT ![n] = mode]
         /\ original_offline_mode' =
                [original_offline_mode EXCEPT ![n] = persisted_offline_mode]
         /\ persisted_offline_mode' =
                IF mode \in OfflineModes /\ HasSaveConfig(app, mode)
                THEN TRUE ELSE persisted_offline_mode
         /\ scan_thread' = [scan_thread EXCEPT ![n] = "started"]
         /\ files_left' = [files_left EXCEPT ![n] = NumFiles]
         /\ restore_thread' =
                [restore_thread EXCEPT
                   ![n] = IF mode \in OfflineModes THEN "waiting" ELSE "none"]
    /\ app_scanning_active' =
           IF app = "unified_app" THEN TRUE ELSE app_scanning_active
    /\ UNCHANGED <<qtvars, pipevars, clientvars, pfvars, resumevars,
                   searchvars, embedvars, app, offline_seen>>

\* the Stop button (simple_unified_app.py 398-399, unified_app.py 143-144)
UnifiedStop ==
    /\ app_scanning_active
    /\ app_scanning_active' = FALSE
    /\ UNCHANGED <<qtvars, pipevars, clientvars, pfvars, resumevars,
                   searchvars, embedvars, app, persisted_offline_mode,
                   unified_scans, unified_mode, original_offline_mode,
                   scan_thread, restore_thread, files_left, offline_seen>>

\* the scan thread begins to run its scan function
ScanThreadBegins(n) ==
    /\ scan_thread[n] = "started"
    /\ scan_thread' = [scan_thread EXCEPT ![n] = "running"]
    /\ app_scanning_active' =
           IF SetsAppFlag(app, unified_mode[n]) THEN TRUE
           ELSE app_scanning_active
    /\ UNCHANGED <<qtvars, pipevars, clientvars, pfvars, resumevars,
                   searchvars, embedvars, app, persisted_offline_mode,
                   unified_scans, unified_mode, original_offline_mode,
                   restore_thread, files_left, offline_seen>>

\* one file of the scan: the configuration is loaded for it and its
\* offline_mode decides how the file is classified
\* (simple_unified_app.py 46-77); simple_unified_app.parallel_scan_files
\* leaves its loops once scanning_active is False (lines 157, 164)
ScanThreadFile(n) ==
    /\ scan_thread[n] = "running"
    /\ files_left[n] > 0
    /\ IF SetsAppFlag(app, unified_mode[n]) /\ ~app_scanning_active
       THEN /\ files_left' = [files_left EXCEPT ![n] = 0]
            /\ UNCHANGED offline_seen
       ELSE /\ files_left' = [files_left EXCEPT ![n] = @ - 1]
            /\ offline_seen' = [offline_seen EXCEPT
                                  ![n] = @ \cup {persisted_offline_mode}]
    /\ UNCHANGED <<qtvars, pipevars, clientvars, pfvars, resumevars,
                   searchvars, embedvars, app, persisted_offline_mode,
                   app_scanning_active, unified_scans, unified_mode,
                   original_offline_mode, scan_thread, restore_thread>>

\* the scan function returns and the scan thread ends
ScanThreadEnds(n) ==
    /\ scan_thread[n] = "running"
    /\ files_left[n] = 0
    /\ scan_thread' = [scan_thread EXCEPT ![n] = "finished"]
    /\ app_scanning_active' =
           IF SetsAppFlag(app, unified_mode[n]) THEN FALSE
           ELSE app_scanning_active
    /\ UNCHANGED <<qtvars, pipevars, clientvars, pfvars, resumevars,
                   searchvars, embedvars, app, persisted_offline_mode,
                   unified_scans, unified_mode, original_offline_mode,
                   restore_thread, files_left, offline_seen>>

\* what the restore thread waits for: simple_unified_app polls
\* scanning_active (lines 288-289); unified_scanner joins the scan thread
\* (line 71)
RestoreMayRun(a, n) ==
    IF a = "simple_unified_app" THEN ~app_scanning_active
    ELSE scan_thread[n] = "finished"

\* restore_config: the configuration is loaded, offline_mode is set to the
\* original value and the configuration is saved
RestoreConfigThread(n) ==
    /\ restore_thread[n] = "waiting"
    /\ RestoreMayRun(app, n)
    /\ restore_thread' = [restore_thread EXCEPT ![n] = "done"]
    /\ persisted_offline_mode' =
           IF HasSaveConfig(app, unified_mode[n])
           THEN original_offline_mode[n] ELSE persisted_offline_mode
    /\ UNCHANGED <<qtvars, pipevars, clientvars, pfvars, resumevars,
                   searchvars, embedvars, app, app_scanning_active,
                   unified_scans, unified_mode, original_offline_mode,
                   scan_thread, files_left, offline_seen>>

InitUnified ==
    /\ PipeInit({"seq"}, {[workers |-> 0, scans |-> 0, stop |-> FALSE,
                           offline |-> FALSE]},
                {[f \in Files |-> max_file_size_mb]}, {}, {<<"top">>})
    /\ ClientIdle
    /\ ProcessFileIdle /\ ResumeIdle /\ SearchIdle /\ EmbedIdle /\ QtIdle
    /\ UnifiedQuiet
    /\ app \in UnifiedApps
    /\ persisted_offline_mode \in BOOLEAN

NextUnified ==
    \/ \E mode \in UnifiedScanModes : UnifiedScan(mode)
    \/ UnifiedStop
    \/ \E n \in UnifiedCalls : ScanThreadBegins(n)
    \/ \E n \in UnifiedCalls : ScanThreadFile(n)
    \/ \E n \in UnifiedCalls : ScanThreadEnds(n)
    \/ \E n \in UnifiedCalls : RestoreConfigThread(n)

SpecUnified == InitUnified /\ [][NextUnified]_vars

(***************************************************************************)
(* resume_functions: the resume record                                     *)
(***************************************************************************)
\* time.time() when the process starts, in seconds since the epoch
StartTime == 1700000000

\* time.time() at clock value n
Time(n) == StartTime + n

\* ages of the resume record a process finds at start-up: 23, 24 and 25
\* hours
ResumeAges == {23 * 3600, 24 * 3600, 25 * 3600}

\* a resume record written at time t after count processed files
ResumeRecord(t, count) ==
    [kind |-> "record", has_timestamp |-> TRUE, timestamp |-> t,
     processed_files_count |-> count]

\* what a process can find in RESUME_FILE at start-up: nothing, a file that
\* does not parse, a record without "timestamp", a record of some age
ResumeFiles ==
    {NoResumeFile, CorruptResumeFile}
    \cup {[ResumeRecord(0, ResumeSaveEvery) EXCEPT !.has_timestamp = FALSE]}
    \cup {ResumeRecord(StartTime - a, ResumeSaveEvery) : a \in ResumeAges}

IsRecentInclusive(age) == age <= ResumeMaxAge

\* line 32: the record is recent
IsRecent(age) == age < ResumeMaxAge

\* lines 24-37, load_resume_state: None unless the file exists, parses (an
\* exception of json.load is caught at line 34) and is recent;
\* resume_data.get("timestamp", 0) is 0 for a record without timestamp
LoadResumeState ==
    /\ wpc = "idle" /\ resume_data = "not loaded"
    /\ resume_data' =
         IF resume_file.kind = "record"
            /\ IsRecent(Time(now) - (IF resume_file.has_timestamp
                                     THEN resume_file.timestamp ELSE 0))
         THEN "record" ELSE "None"
    /\ UNCHANGED <<unifiedvars, qtvars, embedvars, pipevars, clientvars, pfvars, searchvars, resume_file>>

\* lines 8-22, save_resume_state: the file is overwritten with a record
\* carrying time.time()
SaveResumeState(t, count) == ResumeRecord(t, count)

ClearResumeStateKeeps(file) == file

\* lines 39-45, clear_resume_state: the file is removed if it exists
ClearResumeState(file) == NoResumeFile

\* the sequential scan of the patched program starts
RsStartScan ==
    /\ wpc = "idle" /\ resume_data # "not loaded"
    /\ wpc' = "walk"
    /\ scan_no' = scan_no + 1
    /\ processed_files' = 0
    /\ scanning_active' = TRUE
    /\ UNCHANGED <<libvars, clientvars, envvars, offline_mode, at_stop, dbvars,
                   qvars, flagvars, widx, wk, workers, histvars>>

\* one file is handled; fix_indentation.py lines 38-49: after the progress
\* update in the finally block, the resume record is written every
\* ResumeSaveEvery processed files
RsScanFile ==
    /\ wpc = "walk" /\ scanning_active
    /\ resume_data # "not loaded"
    /\ processed_files < MaxResumeFiles
    /\ processed_files' = processed_files + 1
    /\ IF (processed_files + 1) % ResumeSaveEvery = 0
       THEN \E t \in ClockReads(now) :
              /\ now' = t
              /\ resume_file' = SaveResumeState(Time(t), processed_files + 1)
       ELSE UNCHANGED <<now, resume_file>>
    /\ UNCHANGED <<unifiedvars, qtvars, embedvars, pfvars, searchvars, resume_data, clientvars, cfgvars, size_mb, unreadable, mtime,
                   changed, uivars, dbvars, qvars, flagvars, wpc, widx, wk,
                   scan_no, workers, histvars>>

\* the cancellation poll at the head of the file loop finds the scan
\* cancelled: the scan function returns
RsCancel ==
    /\ wpc = "walk" /\ ~scanning_active
    /\ resume_data # "not loaded"
    /\ processed_files < MaxResumeFiles
    /\ wpc' = "cancelled"
    /\ UNCHANGED <<libvars, clientvars, envvars, uivars, dbvars, qvars,
                   flagvars, widx, wk, processed_files, scan_no, workers,
                   histvars>>

\* fix_indentation.py lines 67-79 and improve_v4.py lines 29-36: the walk
\* is over; final save of the database, then clear_resume_state()
RsComplete ==
    /\ wpc = "walk" /\ processed_files = MaxResumeFiles
    /\ resume_data # "not loaded"
    /\ unsaved' = SaveDatabase(unsaved)
    /\ unsaved_merges' = 0
    /\ resume_file' = ClearResumeState(resume_file)
    /\ wpc' = "returned"
    /\ UNCHANGED <<unifiedvars, qtvars, embedvars, pfvars, searchvars, resume_data, clientvars, envvars, uivars,
                   file_database, qvars, flagvars, widx, wk, processed_files,
                   scan_no, workers, histvars>>

\* a process starts with whatever an earlier process left in RESUME_FILE;
\* the user may press Stop during the scan
InitResume ==
    /\ PipeInit({"seq"},
                {[workers |-> 1, scans |-> 1, stop |-> TRUE, offline |-> FALSE]},
                {[f \in Files |-> max_file_size_mb]}, {}, {<<"top">>})
    /\ ClientIdle
    /\ ProcessFileIdle
    /\ SearchIdle /\ EmbedIdle /\ QtIdle /\ UnifiedIdle
    /\ resume_file \in ResumeFiles
    /\ resume_data = "not loaded"

NextResume ==
    \/ LoadResumeState
    \/ RsStartScan
    \/ RsScanFile
    \/ Stop
    \/ RsCancel
    \/ RsComplete

SpecResume == InitResume /\ [][NextResume]_vars

(***************************************************************************)
(* Properties of the scan pipeline (checked under Spec)                    *)
(***************************************************************************)
\* the files waiting in the queue
QueuedFiles == {file_queue[i] : i \in 1..Len(file_queue)} \ {Sentinel}

\* the walker of the current scan has dealt with file f
Walked(f) == scan_no >= 1 /\ widx > f

\* no scan is running and nothing of a scan is left behind: no live worker,
\* no file waiting in the queue
Quiescent == wpc = "returned" /\ workers = EmptyBag /\ QueuedFiles = {}

\* C1: the work queue never holds more entries than its capacity, files and
\* sentinels counted together
C1_QueueBound == Len(file_queue) <= QueueMaxSize

\* parallel_scanner: the queue is at its capacity and the walker's next file
\* is one it has to enqueue, so its put blocks
C1_Witness ==
    /\ impl = "ps" /\ wpc = "walk" /\ widx <= Len(WalkOrder)
    /\ Len(file_queue) = QueueMaxSize
    /\ size_mb[WalkOrder[widx]] = max_file_size_mb
    /\ file_database[WalkOrder[widx]] = NoRecord

\* C2: after two scans run in sequence, the classifier has been invoked
\* exactly once for every file that was not modified on disk (and that a
\* scan classifies at all: its size is obtainable and not over the limit)
C2_FreshnessIdempotence ==
    (impl = "ps" /\ scan_no = 2 /\ Quiescent) =>
        \A f \in Files \ changed :
            (size_mb[f] # StatFails /\ size_mb[f] <= max_file_size_mb)
                => classify_calls[f] = 1

\* C3: once the work pass is over exactly one sentinel per worker has been
\* enqueued, every worker that ends has dequeued a sentinel, and no sentinel
\* stays in the queue
C3_OneSentinelPerWorker ==
    impl = "ps" =>
        /\ (wpc \in {"join", "returned"}
              => sentinels_put = scan_no * num_workers)
        /\ flag_exits = 0
        /\ (wpc = "returned" /\ workers = EmptyBag
              => Len(file_queue) = 0)

\* a worker's dequeue times out on an empty queue while scan_complete is
\* not set
IdleTimeout ==
    \E w \in LiveWorkers : PsWorkerEmptyWait(w) \/ SuaWorkerEmptyWait(w)

\* C4: a worker whose dequeue times out on an empty queue while
\* scan_complete is not set stays running: the live workers are the same
\* after the step and no worker has ended with an exception
C4_IdleWorkerKeepsRunning ==
    [][IdleTimeout => (workers' = workers /\ crashed' = crashed)]_vars

\* C5: an oversize file the walker has dealt with has a "Large File"
\* record, and is never enqueued, previewed or classified; a file of exactly
\* max_file_size_mb never has a "Large File" record
C5_OversizeShortcut ==
    \A f \in Files :
        /\ size_mb[f] > max_file_size_mb =>
             /\ enqueued[f] = 0
             /\ preview_calls[f] = 0
             /\ classify_calls[f] = 0
             /\ f \notin QueuedFiles
             /\ \A w \in LiveWorkers : w.pc = "get" \/ w.item # f
             /\ (Walked(f) => file_database[f].classification = "Large File")
        /\ size_mb[f] = max_file_size_mb =>
             file_database[f].classification # "Large File"

\* a scan has given an oversize file its "Large File" record and has had a
\* file of exactly the limit classified
C5_Witness ==
    \E f, g \in Files :
        /\ size_mb[f] > max_file_size_mb
        /\ file_database[f].classification = "Large File"
        /\ size_mb[g] = max_file_size_mb
        /\ enqueued[g] > 0 \/ impl = "seq"
        /\ classify_calls[g] > 0
        /\ file_database[g].classification = "Label"

\* the files the workers hold (dequeued, not yet merged)
InFlight == {w.item : w \in {x \in LiveWorkers : x.pc # "get"}}

\* Stop was pressed during the work pass of the scan that is running
StopPressed ==
    wpc \in {"walk", "sentinels", "join"} /\ ~scanning_active /\ at_stop.widx > 0

\* C11: in the walkers that poll the flag, once Stop was pressed no file
\* other than the one the walker was handling is enqueued, no file other
\* than those already being handled is taken up or classified, and the
\* records that existed when Stop was pressed stay as they were
C11_CancellationStopsWork ==
    [][(impl \in {"seq", "sua"} /\ StopPressed) =>
          /\ \A f \in Files :
                enqueued'[f] > enqueued[f] => f = WalkOrder[at_stop.widx]
          /\ \A f \in Files :
                classify_calls'[f] > classify_calls[f]
                    => f \in InFlight \cup {WalkOrder[at_stop.widx]}
          /\ InFlight' \subseteq InFlight
          /\ \A f \in Files :
                at_stop.db[f] # NoRecord => file_database'[f] = at_stop.db[f]
      ]_vars

\* C12: in parallel_scanner's walker, once Stop was pressed the walker
\* goes no further than the file it was handling
C12_PatchedWalkerPollsCancellation ==
    (impl = "ps" /\ at_stop.widx > 0) => widx <= at_stop.widx + 1

\* C13: when the sequential scan has returned, after a normal end or after
\* a cancellation, every record merged so far is in the database on disk
C13_SaveAtEndAndAtCancel ==
    (impl = "seq" /\ wpc = "returned") => unsaved = {}

\* the number of threads of parallel_scanner inside a "with results_lock"
\* block
Writers ==
    (IF wpc = "large" THEN 1 ELSE 0)
    + BagCardinality([w \in {x \in LiveWorkers : x.pc = "locked"} |-> workers[w]])

\* C14: during a parallel scan of parallel_scanner at most one thread is
\* inside the section guarded by results_lock, and every step that changes
\* file_database is taken by the thread that is inside it
C14_WritesUnderResultsLock ==
    [][impl = "ps" =>
          /\ Writers <= 1
          /\ Writers' <= 1
          /\ file_database' # file_database => Writers = 1
      ]_vars

\* a worker holds results_lock while another worker, its record ready,
\* waits for it
C14_Witness ==
    /\ impl = "ps"
    /\ \E w \in LiveWorkers : w.pc = "locked"
    /\ \E w \in LiveWorkers : w.pc = "merge"

\* C15: while save_database is iterating the database for the final save
\* of a parallel scan, no worker and no walker stores a record in
\* file_database
C15_SaveOnSnapshot ==
    [][(impl = "ps" /\ wpc = "saving") => file_database' = file_database]_vars

\* C18: every record of file_database carries the path it is stored under,
\* and a step that stores a record for a path that already has one replaces
\* that record and leaves the set of keys and every other record as they were
C18_OneRecordPerPath ==
    [][/\ \A f \in Stored(file_database') : file_database'[f].path = f
       /\ Stored(file_database) \subseteq Stored(file_database')
       /\ \A f \in Stored(file_database) :
             file_database'[f] # file_database[f]
                => /\ Stored(file_database') = Stored(file_database)
                   /\ \A g \in Files \ {f} : file_database'[g] = file_database[g]
      ]_vars

\* a parallel scan has classified a file for the second time and its one
\* record is in place
C18_Witness ==
    /\ impl = "ps" /\ wpc = "returned" /\ workers = EmptyBag
    /\ \A i \in 1..Len(file_queue) : file_queue[i] = Sentinel
    /\ \E f \in Files : classify_calls[f] = 2 /\ file_database[f].path = f

\* C19: in a parallel scan of parallel_scanner the scan_timestamp of the
\* record stored under a path never decreases, also when two workers hold
\* the same path at the same time
C19_TimestampMonotonic ==
    [][impl = "ps" =>
          \A f \in Files : file_database'[f].scan_timestamp
                               >= file_database[f].scan_timestamp
      ]_vars

\* C20: in a run whose scan mode is "offline" or "turbo" the classifier
\* function is never called and every record in file_database has
\* offline_indexed set to true
C20_OfflineModesSkipLLM ==
    scan_mode \in OfflineModes =>
        /\ \A f \in Files : classify_calls[f] = 0
        /\ \A f \in Stored(file_database) :
              file_database[f].offline_indexed = "true"

\* C38: in the work pass every candidate file adds exactly one to
\* processed_files, so that processed_files never exceeds total_files and
\* equals it when the walk has gone through every file
C38_EachFileCountedOnce ==
    (impl \in {"ps", "seq"} /\ wpc # "idle") =>
        /\ processed_files <= total_files
        /\ widx > Len(WalkOrder) => processed_files = total_files

\* the walker is in its work pass, at a candidate file, and has not seen a
\* cancellation (parallel_scanner's walker never looks for one)
AtCandidate ==
    wpc = "walk" /\ widx <= Len(WalkOrder) /\ (impl = "ps" \/ scanning_active)

\* the record that llm_worker is about to store is process_file's record
\* for a classifier function that raised
StoresAfterRaise ==
    impl = "ps" /\ \E w \in LiveWorkers : w.pc = "locked" /\ w.result = "raise"

\* a step of a scan with per-file problems: the walker stays in the work
\* pass and goes on to the next file at most; no record is stored for a
\* file whose size cannot be obtained; the record stored after the
\* classifier function raised is an "Error" record. unreadable_labels are
\* the classifications a record stored for an unreadable file may have.
FileProblemStep(unreadable_labels) ==
    /\ AtCandidate => wpc' \in {"walk", "large"} /\ widx' \in {widx, widx + 1}
    /\ wpc = "large" => \/ wpc' = "large" /\ widx' = widx
                        \/ wpc' = "walk" /\ widx' = widx + 1
    /\ \A f \in Files :
          file_database'[f] # file_database[f] =>
              /\ size_mb[f] # StatFails
              /\ StoresAfterRaise => file_database'[f].classification = "Error"
              /\ f \in unreadable =>
                    file_database'[f].classification \in unreadable_labels

\* C32 as stated: a per-file problem (size or modification time cannot be
\* obtained, the preview cannot be read, the classifier function raises)
\* never ends the work pass; the failing file is skipped or gets an "Error"
\* record, and the walker goes on to the next candidate
C32_FailingFileSkippedOrError == [][FileProblemStep({"Error"})]_vars

\* C32 amended: a file whose preview cannot be read is not skipped: it is
\* classified like any other file, from the marker text get_file_preview
\* returns, and gets the classifier's record (an "Error" record only if the
\* classifier function raised as well); otherwise as stated
C32_FileProblemsContained ==
    [][FileProblemStep(IF StoresAfterRaise THEN {"Error"}
                       ELSE {"Label", "Heuristic"})]_vars

\* a parallel scan has returned: the unreadable file 1 has the classifier's
\* record and file 2, examined after it, has the "Error" record of a
\* classifier function that raised
C32_Witness ==
    /\ impl = "ps" /\ wpc = "returned"
    /\ 1 \in unreadable
    /\ file_database[1].classification = "Label"
    /\ file_database[2].classification = "Error"

(***************************************************************************)
(* Properties of a parallel scan over any list of roots (checked under     *)
(* SpecParallel)                                                           *)
(***************************************************************************)
\* C33: within one run of parallel_scan_files no path is put on the queue
\* more than once and no path is classified more than once, whatever the
\* list of roots
C33_NoPathEnqueuedTwice ==
    \A f \in Files : enqueued[f] <= 1 /\ classify_calls[f] <= 1

\* C34: every descriptor the walker has put on the queue is eventually
\* taken off it by a worker, and the worker that holds it eventually
\* stores its record: no descriptor stays in the queue
C34_EnqueuedEventuallyMerged ==
    \A f \in Files :
        (f \in QueuedFiles \cup InFlight)
            ~> (f \notin QueuedFiles \cup InFlight
                /\ file_database[f] # NoRecord)

\* C35: when parallel_scan_files has returned, every worker has stopped,
\* no file is left in the queue or in a worker's hands, and every record is
\* in the database as it was last saved
C35_WorkersStoppedAtReturn ==
    wpc = "returned" =>
        /\ workers = EmptyBag
        /\ QueuedFiles = {}
        /\ unsaved = {}

\* C37: once a scan has returned and all workers have stopped, the
\* module-level queue holds neither a file nor a sentinel
C37_QueueEmptyAfterScan ==
    (wpc = "returned" /\ workers = EmptyBag) => file_queue = <<>>

\* C36: every run of parallel_scan_files eventually returns, the first and
\* any later one: the walker is never blocked forever on a full queue
C36_ScanReturns == (wpc = "walk") ~> (wpc = "returned")

(***************************************************************************)
(* Properties of process_file (checked under SpecProcessFile)              *)
(***************************************************************************)
\* the lower-cased names and their parts
LowerNames(lo) == Strings({LowerChar(c) : c \in NameChars}, lo, MaxNameLen)

\* the lower-cased name is root + "." + t, where t has no dot and root has
\* a character that is not a dot
HasExtension(name, t) ==
    \E root \in LowerNames(1) :
       /\ Lower(name) = root \o <<".">> \o t
       /\ \A i \in 1..Len(t) : t[i] # "."
       /\ \E i \in 1..Len(root) : root[i] # "."

\* C21: a call of process_file with offline_mode set never calls the
\* classifier function and returns a record with offline_indexed true whose
\* classification is the upper-cased extension of the file name followed by
\* " file", with the extension as the keyword, or "Unknown file type" with
\* the keyword "unknown" when the name has no extension
C21_OfflineHeuristic ==
    (config = "true" /\ process_file_result # NoResult) =>
       /\ classify_func_calls = 0
       /\ process_file_result.offline_indexed = "true"
       /\ \/ \E t \in LowerNames(0) :
                /\ HasExtension(file_name, t)
                /\ process_file_result.classification = Upper(t) \o <<" file">>
                /\ process_file_result.keywords = <<t>>
          \/ /\ \A t \in LowerNames(0) :
                   ~HasExtension(file_name, t)
             /\ process_file_result.classification = <<"Unknown file type">>
             /\ process_file_result.keywords = << <<"unknown">> >>

\* process_file has returned in offline mode for a name in upper case that
\* has an extension
C21_Witness ==
    /\ config = "true"
    /\ process_file_result # NoResult
    /\ file_name = <<"a", ".", "B">>
    /\ process_file_result.classification = <<"B", " file">>

(***************************************************************************)
(* Properties of the search (checked under SpecSearch)                     *)
(***************************************************************************)
\* search_files has returned for a query that is not blank
SearchDone == searched /\ ~IsBlank(query)

\* the text holds the letter of the query "A", in either case
HasLetter(text) == \E i \in 1..Len(text) : text[i] \in {"a", "A"}

\* the score the record at path i is to have, in tenths
ExpectedScore(i) ==
    (IF HasLetter(items[i].name) THEN 3 ELSE 0)
    + (IF HasLetter(items[i].classification) THEN 2 ELSE 0)
    + (IF HasLetter(items[i].summary) THEN 3 ELSE 0)
    + (IF \E k \in 1..Len(items[i].keywords) : HasLetter(items[i].keywords[k])
       THEN 2 ELSE 0)

\* the similarity of the record at path i, EmbedFails if it has none
SimilarityOf(i) ==
    IF items[i].summary = <<>> THEN EmbedFails ELSE similarity[items[i].summary]

\* the position of path i in a result list, 0 if it is not there
Position(results, i) ==
    IF i \in Paths(results)
    THEN CHOOSE k \in 1..Len(results) : results[k][1] = i
    ELSE 0

\* C24: the score keyword_search gives a record is 0.3 for the name, plus
\* 0.2 for the classification, plus 0.3 for the summary, plus 0.2 once if
\* any keyword matches, where a field matches when it contains the query,
\* whatever the case of either
C24_KeywordScore ==
    SearchDone =>
       \A k \in 1..Len(keyword_results) :
          keyword_results[k][2] = ExpectedScore(keyword_results[k][1])

\* a record whose four fields match, two of its keywords among them, has
\* been scored 1.0
C24_Witness ==
    /\ SearchDone
    /\ \E k \in 1..Len(keyword_results) :
          /\ keyword_results[k][2] = 10
          /\ items[keyword_results[k][1]].keywords = << <<"a">>, <<"A", "b">> >>

\* C25: keyword_search returns exactly the records whose score is positive,
\* each once, in order of non-increasing score, records of equal score in
\* the order of the input
C25_KeywordResultsOrdered ==
    SearchDone =>
       /\ Paths(keyword_results) = {i \in 1..Len(items) : ExpectedScore(i) > 0}
       /\ Len(keyword_results) = Cardinality(Paths(keyword_results))
       /\ \A k \in 1..(Len(keyword_results) - 1) :
             \/ keyword_results[k][2] > keyword_results[k + 1][2]
             \/ /\ keyword_results[k][2] = keyword_results[k + 1][2]
                /\ keyword_results[k][1] < keyword_results[k + 1][1]

\* two records with the same positive score have been returned
C25_Witness ==
    /\ SearchDone
    /\ Len(keyword_results) = 2
    /\ keyword_results[1][2] = keyword_results[2][2]

\* C26: no path is twice in search_results, and a record with a keyword
\* score above 0 is there as its keyword entry, with the keyword score,
\* whatever its similarity
C26_NoDuplicatePaths ==
    SearchDone =>
       /\ Len(search_results) = Cardinality(Paths(search_results))
       /\ \A i \in 1..Len(items) :
             ExpectedScore(i) > 0 =>
                \A k \in 1..Len(search_results) :
                   search_results[k][1] = i =>
                      search_results[k] = <<i, ExpectedScore(i), "keyword">>

\* a record matched by both signals, with a similarity above its keyword
\* score, is in the results once
C26_Witness ==
    /\ SearchDone
    /\ \E i \in 1..Len(items) :
          /\ ExpectedScore(i) = 2
          /\ i \in Paths(semantic_results)
          /\ SimilarityOf(i) = 6
          /\ <<i, 2, "keyword">> = search_results[Position(search_results, i)]

\* C27: an entry tagged "semantic" carries a similarity strictly above
\* 0.5; a record whose similarity is 0.5 or lower is in the results only
\* with a keyword score above 0
C27_SemanticAboveThreshold ==
    SearchDone =>
       /\ \A k \in 1..Len(search_results) :
             search_results[k][3] = "semantic" =>
                /\ search_results[k][2] = SimilarityOf(search_results[k][1])
                /\ search_results[k][2] > 5
       /\ \A i \in Paths(search_results) :
             SimilarityOf(i) <= 5 => ExpectedScore(i) > 0

\* semantic_search returned a record of similarity exactly 0.5 without any
\* keyword match and search_files left it out
C27_Witness ==
    /\ SearchDone
    /\ \E i \in Paths(semantic_results) :
          /\ SimilarityOf(i) = 5
          /\ ExpectedScore(i) = 0
          /\ i \notin Paths(search_results)

\* C28: every record with a summary that can be embedded, a similarity
\* above 0.5 and no keyword match is in search_results tagged "semantic",
\* however many records are more similar
C28_EverySemanticMatchIncluded ==
    (SearchDone /\ query_embeds) =>
       \A i \in 1..Len(items) :
          (SimilarityOf(i) > 5 /\ ExpectedScore(i) = 0) =>
             \E k \in 1..Len(search_results) :
                search_results[k] = <<i, SimilarityOf(i), "semantic">>

\* C29: search_results is in order of non-increasing score over keyword
\* and semantic entries together; among entries of equal score a keyword
\* entry comes before a semantic one, and two entries with the same tag
\* stand as in the list they came from
C29_FinalOrder ==
    SearchDone =>
       \A k \in 1..Len(search_results) : \A l \in (k + 1)..Len(search_results) :
          LET a == search_results[k]
              b == search_results[l]
          IN \/ a[2] > b[2]
             \/ /\ a[2] = b[2]
                /\ ~(a[3] = "semantic" /\ b[3] = "keyword")
                /\ (a[3] = "keyword" /\ b[3] = "keyword") =>
                      Position(keyword_results, a[1]) < Position(keyword_results, b[1])
                /\ (a[3] = "semantic" /\ b[3] = "semantic") =>
                      Position(semantic_results, a[1]) < Position(semantic_results, b[1])

\* a semantic entry stands before a keyword entry of lower score, which
\* was inserted first
C29_Witness ==
    /\ SearchDone
    /\ Len(search_results) = 2
    /\ search_results[1][3] = "semantic"
    /\ search_results[2][3] = "keyword"

\* C30: when the query has no embedding, semantic_search returns nothing
\* and search_results holds all keyword results; when a summary has no
\* embedding, its record alone is left out of the semantic scoring: every
\* other record with a summary is returned by semantic_search unless TopK
\* records at least as similar are
C30_EmbedderFailureContained ==
    SearchDone =>
       /\ ~query_embeds =>
             /\ semantic_results = <<>>
             /\ Len(search_results) = Len(keyword_results)
             /\ \A k \in 1..Len(keyword_results) :
                   search_results[k] = <<keyword_results[k][1],
                                         keyword_results[k][2], "keyword">>
       /\ query_embeds =>
             \A i \in 1..Len(items) :
                /\ SimilarityOf(i) = EmbedFails => i \notin Paths(semantic_results)
                /\ SimilarityOf(i) # EmbedFails =>
                      \/ /\ i \in Paths(semantic_results)
                         /\ semantic_results[Position(semantic_results, i)][2]
                               = SimilarityOf(i)
                      \/ /\ Len(semantic_results) = TopK
                         /\ \A k \in 1..TopK :
                               semantic_results[k][2] >= SimilarityOf(i)

\* one summary could not be embedded and the other record was still scored
C30_Witness ==
    /\ SearchDone /\ query_embeds
    /\ Len(items) = 2
    /\ items[1].summary # <<>> /\ SimilarityOf(1) = EmbedFails
    /\ semantic_results = << <<2, SimilarityOf(2)>> >>

(***************************************************************************)
(* Properties of the embedding cache (checked under SpecEmbed)             *)
(***************************************************************************)
\* C31: get_embedding memoizes by text: a call for a text that is in the
\* cache returns the cached vector and invokes neither encode nor the model
\* initialisation; a call that returns a vector leaves exactly that vector
\* in the cache; a call that fails leaves the text out of the cache, and a
\* call for a text that is not in the cache invokes the embedder again; no
\* cache entry is ever removed or overwritten
C31_EmbeddingMemoized ==
    [][get_calls' # get_calls =>
        LET t == embed_text' IN
        /\ embeddings_cache[t] # NotCached =>
              /\ embed_result' = embeddings_cache[t]
              /\ encode_calls' = encode_calls
              /\ model_inits' = model_inits
        /\ embed_result' # EmbedFails => embeddings_cache'[t] = embed_result'
        /\ embed_result' = EmbedFails => embeddings_cache'[t] = NotCached
        /\ embeddings_cache[t] = NotCached =>
              \/ encode_calls'[t] = encode_calls[t] + 1
              \/ model_inits' = model_inits + 1
        /\ \A u \in Texts :
              embeddings_cache[u] # NotCached =>
                  embeddings_cache'[u] = embeddings_cache[u]]_vars

\* a text whose first encode failed, whose second encode succeeded and
\* whose third and fourth calls were answered from the cache
C31_Witness ==
    \E t \in Texts :
        /\ get_calls[t] = 4 /\ encode_calls[t] = 2 /\ model_inits = 1
        /\ embed_text = t
        /\ embeddings_cache[t] # NotCached
        /\ embed_result = embeddings_cache[t]

(***************************************************************************)
(* Properties of the Qt application (checked under SpecQt)                 *)
(***************************************************************************)
\* C39: after Stop was requested during a scan, in whatever phase and
\* mode, the application's scanning_active eventually returns to False
C39_StopEndsScan ==
    (qt_scanning_active /\ is_cancelled) ~> ~qt_scanning_active

(***************************************************************************)
(* Properties of the resume record (checked under SpecResume)              *)
(***************************************************************************)
\* C22: load_resume_state returns the resume record if and only if the
\* resume file exists, parses, has a timestamp and that timestamp is less
\* than 24 hours (86400 s) before the time of the call; otherwise it
\* returns None, and it always returns
C22_ResumeOfferedIffRecent ==
    (wpc = "idle" /\ resume_data # "not loaded") =>
       /\ resume_data \in {"record", "None"}
       /\ resume_data = "record" <=>
             /\ resume_file.kind = "record"
             /\ resume_file.has_timestamp
             /\ Time(now) - resume_file.timestamp < 24 * 3600

\* load_resume_state has returned a record that is 23 hours old
C22_Witness ==
    /\ wpc = "idle" /\ resume_data = "record"
    /\ Time(now) - resume_file.timestamp = 23 * 3600

C23_WitnessCompleted ==
    wpc = "returned" /\ resume_data = "record" /\ resume_file = NoResumeFile

(***************************************************************************)
(* Properties of the checkpoints (checked under SpecCheckpoint)            *)
(***************************************************************************)
\* C16: the number of records stored in the database since it was last
\* saved never exceeds 20, however many workers there are
C16_UnsavedMergesBounded ==
    unsaved_merges <= WorkerSaveEvery

\* C17: a save of the database that fails during the scan ends no worker:
\* while the walker is handing out files no worker thread dies of an
\* exception and the number of running workers stays the same
C17_SaveFailureNotFatal ==
    [][(impl = "ps" /\ wpc = "walk") =>
          /\ crashed' = crashed
          /\ BagCardinality(workers') = BagCardinality(workers)
      ]_vars

(***************************************************************************)
(* Properties of the classifier client (checked under SpecClient)          *)
(***************************************************************************)
\* the retrying clients
Retrying == {"fixed", "qt"}

\* a call that went into the request loop has ended
CallEnded == cpc = "done" /\ requests > 0

\* every request of the script ends in one of the outcomes of set S
EveryAttempt(S) == \A i \in DOMAIN script : script[i] \in S

\* max_retries timeouts, then a parseable reply
TimeoutsThenOk ==
    /\ \A i \in 1..max_retries : script[i] = "Timeout"
    /\ script[max_retries + 1] = "Ok"

\* C6: a call whose first max_retries attempts time out and whose last
\* attempt succeeds returns the parsed record
C6_TimeoutsThenSuccess ==
    (CallEnded /\ client \in Retrying /\ TimeoutsThenOk) =>
        /\ requests = max_retries + 1
        /\ result = ParsedRecord.classification
        /\ keywords = ParsedRecord.keywords

\* the retrying call has ended after max_retries >= 1 timeouts and a
\* success
C6_Witness ==
    /\ CallEnded /\ client \in Retrying /\ TimeoutsThenOk
    /\ max_retries >= 1
    /\ Len(sleeps) = max_retries

\* C7: a call all of whose attempts fail does not raise to its caller,
\* makes at most max_retries + 1 requests and returns a record whose
\* keywords contain "error"
C7_FallbackAfterExhaustion ==
    /\ requests <= max_retries + 1
    /\ (CallEnded /\ client \in Retrying /\ EveryAttempt(Outcomes \ {"Ok"})) =>
          /\ ~raised
          /\ result \in {"Unknown", "Error"}
          /\ "error" \in keywords

\* a retrying call has used all its max_retries + 1 requests on failures of
\* at least three kinds
C7_Witness ==
    /\ CallEnded /\ client \in Retrying /\ EveryAttempt(Outcomes \ {"Ok"})
    /\ requests = max_retries + 1
    /\ Cardinality({script[i] : i \in DOMAIN script}) >= 3

\* C8: retries exhausted by Timeout or ConnectionError alone give
\* classification "Unknown"; "Error" is given only after an unexpected
\* exception
C8_TransientExhaustionUnknown ==
    (CallEnded /\ client \in Retrying) =>
        /\ EveryAttempt({"Timeout", "ConnectionError"}) => result = "Unknown"
        /\ result = "Error" =>
             \E i \in 1..requests : script[i] = "BadBody"

C10_LinearBackoff ==
    client \in Retrying =>
        /\ \A k \in 1..Len(sleeps) : sleeps[k] = k * 2
        /\ Len(sleeps) <= max_retries
        /\ (cpc = "done" /\ requests > 0 => Len(sleeps) = requests - 1)

\* C40: for a unified_scan call in mode "offline" or "turbo": the
\* persisted offline_mode is True while the call's scan thread is started
\* and not finished; the restore thread has written only if the scan
\* thread has finished; and once the restore of the latest call has
\* written, the persisted offline_mode is the value it had before that
\* call
C40_OfflineModeHeldDuringScan ==
    \A n \in UnifiedCalls :
        unified_mode[n] \in OfflineModes =>
            /\ scan_thread[n] \in {"started", "running"}
                   => persisted_offline_mode
            /\ restore_thread[n] = "done" => scan_thread[n] = "finished"
            /\ restore_thread[n] = "done" /\ unified_scans = n
                   => persisted_offline_mode = original_offline_mode[n]

====
